---- MODULE Spec2Model ----
(***************************************************************************)
(* Model of the 30clicks back end: the /notify-print background pipeline   *)
(* (completion verifier, Dropbox dispatcher) of index.js and the           *)
(* DropboxTokenManager of dropbox-utils.js.                                *)
(*                                                                         *)
(* Strings the code takes apart (the raw address, folder names) are        *)
(* sequences of one-character strings.  A listing of the bucket is a       *)
(* sequence of file records; what a listing returns is chosen by the       *)
(* environment at every call (the store is eventually consistent, so two   *)
(* listings of one prefix need not agree).                                 *)
(***************************************************************************)
EXTENDS Integers, Sequences, FiniteSets, TLC

\* ------------------------------------------------------------------ bounds
\* The largest number of photo files one listing of an album prefix returns.
MaxItems == 5

\* The longest raw address whose key derivation is followed, and how many
\* derivations of it.
MaxLen == 3
MaxDerivations == 3

\* How many turns of the wait loop of another session's verifier are followed.
MaxOtherPolls == 2

\* The largest maxRetries argument uploadToDropboxWithRetry is called with.
MaxRetriesArg == 5

\* The most photo files a listing returns where the alert's rate is computed.
MaxFound == 199

\* ------------------------------------------------------- program constants
\* `const maxWaitMinutes = 60`
maxWaitMinutes == 60
\* `const photosTaken = 10 - photoCount`
photoCapacity == 10

VARIABLES
  \* --- request (req.body of /notify-print)
  address,            \* req.body.address, a sequence of characters
  photoCount,         \* req.body.photoCount (the remaining counter)
  currentAlbumNumber, \* req.body.userDetails?.currentAlbumNumber, 0 when absent
  derived,            \* the keys derived so far from the address and from
                      \*   one another (an observation of the key derivation)
  ack,                \* the response sent to the client: "none" so far,
                      \*   "success" (res.json) or "failure" (status 500)
  \* --- the background task's locals
  pc,                 \* where the background task stands
  folderPrefix,       \* the active prefix, [folder, album]
  files,              \* the file list of the last adopted listing
  totalPhotoCount,
  waitMinutes,
  cands,              \* possibleFolders still to examine in a legacy search
  \* --- observations (not program state)
  sleeps,             \* one-minute sleeps taken by the verifier
  firstCount,         \* size of the first listing of the canonical prefix, -1 before it
  bestCount,          \* size of the largest listing any call returned so far
  canonHit,           \* poll at which a listing of the canonical prefix first
                      \*   returned at least photosTaken files (0: the initial
                      \*   listing), -1 while none did
  seen0,              \* the latest listing of a candidate folder in the legacy
                      \*   search before the wait loop, <<prefix, photo files>>;
                      \*   <<>> before it and from the first sleep on
  unexaminedMore,     \* the most photo files held by a candidate folder that
                      \*   the latest legacy search, ending at an adoption, left
                      \*   unexamined, when that is more than the adopted folder
                      \*   holds; 0 when no such folder holds more
  alerts,             \* sendManualReviewAlert calls, <<actualCount, expectedCount>>
  \* --- the upload loop's locals
  i,                  \* index into filesToUpload of the file in hand (from 1)
  retryCount,
  dropboxSuccess,
  backoffDelay,       \* the delay being waited before the next attempt, in ms
  \* --- observations of the upload loop (not program state)
  attempts,           \* uploadToDropboxFromFirebase calls made for the file in hand
  delays,             \* retry delays taken for the file in hand: the error
                      \*   caught and the milliseconds waited after it
  results,            \* per finished file, dropboxSuccess when its loop ended
  order,              \* the files' indices in the order of their first attempt
  \* --- the background task of a second completion signal of the session
  twin,               \* its upload loop: [pc, i, retryCount, dropboxSuccess]
  \* --- the background task of a completion signal of another session
  other,              \* its verifier: [pc, waitMinutes, totalPhotoCount]
  \* --- one call of uploadToDropboxFromFirebase, step by step
  up,                 \* where it stands (pc), and what it has done so far:
                      \*   degraded (the mode when it was called), refreshed
                      \*   (it started a token refresh), reads (downloads from
                      \*   the bucket), requests (uploads sent to Dropbox),
                      \*   result (how it ended)
  \* --- one call of the exported uploadToDropboxWithRetry
  withRetry,          \* [pc, maxRetries, attempt, calls, error, delay, waits]:
                      \*   its argument, the loop counter, the calls of
                      \*   uploadToDropboxFromFirebase made, the error of the
                      \*   latest failed call, the delay it last chose and
                      \*   the delays it has waited for
  lastCall,           \* the call of uploadToDropboxFromFirebase the upload loop
                      \*   made in its latest step: [cred, skipped, requests, path]
                      \*   (what it met at the token manager, whether it
                      \*   resolved with { skipped: true }, the uploads it
                      \*   sent to Dropbox, the dropboxPath it was given)
  \* --- DropboxTokenManager (dropboxAuth)
  accessToken,        \* <<"none", 0>>, <<"env", 0>> or <<"issued", t>>
  lastRefresh,
  isDegradedMode,
  consecutiveFailures,
  \* --- the clock and the calls in flight on the token manager
  now,                \* Date.now(), in units of refreshTimeout
  call,               \* per caller, where its refreshAccessToken call stands
  \* --- observations of the token manager (not program state)
  failsSinceReset,    \* refreshAccessToken calls whose last attempt failed since
                      \*   the last successful refresh or exitDegradedMode
  everCached,         \* whether accessToken ever held a token
  returned,           \* per caller, what its last call of the token manager
                      \*   gave back: a token, null (NoToken), a throw, or
                      \*   nothing yet
  adminAlert          \* the details of the alertAdmin call made in the latest
                      \*   step of the token manager or of an upload call,
                      \*   NoAlert when that step made none

\* The request and the verifier's locals and observations, pc apart.
vvars == <<address, photoCount, currentAlbumNumber, derived, ack, folderPrefix, files,
           totalPhotoCount, waitMinutes, cands, sleeps, firstCount, bestCount,
           canonHit, seen0, unexaminedMore, alerts>>

dvars == <<i, retryCount, dropboxSuccess, backoffDelay, attempts, delays, results, order,
           twin, other, up, withRetry, lastCall>>

cvars == <<accessToken, lastRefresh, isDegradedMode, consecutiveFailures, now, call,
           failsSinceReset, everCached, returned, adminAlert>>

vars == <<pc, vvars, dvars, cvars>>

\* ------------------------------------------------------------ strings
AlnumChars == {"1", "2", "A", "B", "S", "e"}

\* A derivation that also rewrites the underscore.
FolderNameRewritingUnderscore(s) ==
  [k \in 1..Len(s) |-> IF s[k] \in AlnumChars THEN s[k]
                        ELSE IF s[k] = "_" THEN "-" ELSE "_"]

\* address.replace(/[^a-z0-9]/gi, '_')
FolderName(s) == [k \in 1..Len(s) |-> IF s[k] \in AlnumChars THEN s[k] ELSE "_"]

\* s.split('_'): the pieces between the underscores (a string with no
\* underscore is one piece, an empty piece is kept).
RECURSIVE SplitFrom(_, _, _)
SplitFrom(s, at, cur) ==
  IF at > Len(s) THEN <<cur>>
  ELSE IF s[at] = "_" THEN <<cur>> \o SplitFrom(s, at + 1, <<>>)
  ELSE SplitFrom(s, at + 1, Append(cur, s[at]))

Split(s) == SplitFrom(s, 1, <<>>)

StartsWith(s, p) == Len(p) <= Len(s) /\ SubSeq(s, 1, Len(p)) = p

EndsWith(s, p) == Len(p) <= Len(s) /\ SubSeq(s, Len(s) - Len(p) + 1, Len(s)) = p

\* ------------------------------------------------------------ the bucket
\* The raw addresses a client sends: "1_A" (houseNumber_postcode, old app),
\* "1_A-B" (a postcode with a character the key derivation rewrites) and
\* "e_1_A" (email_houseNumber_postcode, new app).
Addresses ==
  { <<"1", "_", "A">>,
    <<"1", "_", "A", "-", "B">>,
    <<"e", "_", "1", "_", "A">> }

\* The top-level folders of the bucket, in the order bucket.getFiles() lists
\* their files (by name): "1_1_A", "1_A", "1_A_B", "1_S_A", "2_A", "e_1_A".
BucketFolders ==
  << <<"1", "_", "1", "_", "A">>,
     <<"1", "_", "A">>,
     <<"1", "_", "A", "_", "B">>,
     <<"1", "_", "S", "_", "A">>,
     <<"2", "_", "A">>,
     <<"e", "_", "1", "_", "A">> >>

\* `${folder}/album${albumNumber}/`
Prefix(folder, album) == [folder |-> folder, album |-> album]

\* A file `${prefix}${name}`; name 0 is the zero-length marker of the prefix
\* itself (file.name === prefix).
File(prefix, k) == [folder |-> prefix.folder, album |-> prefix.album, name |-> k]

IsMarker(file) == file.name = 0

\* What bucket.getFiles({prefix}) returns when the prefix holds n photo files,
\* with or without the marker object of the prefix.
Listing(prefix, n, marker) ==
  (IF marker THEN <<File(prefix, 0)>> ELSE <<>>) \o [k \in 1..n |-> File(prefix, k)]

\* currentFiles.filter(file => file.name !== folderPrefix)
PhotoFiles(listing) == SelectSeq(listing, LAMBDA f : ~IsMarker(f))

\* ------------------------------------------------------------ the request
\* An address absent from the body (undefined).
Missing == <<"undefined">>

\* NaN: a photoCount that is no number (absent, or a text that is none), and
\* what arithmetic on it gives.  An integer no counter takes stands for it.
NaN == -1000

\* a < b and a >= b of JavaScript numbers: false when either side is NaN.
Less(a, b) == a # NaN /\ b # NaN /\ a < b

AtLeast(a, b) == a # NaN /\ b # NaN /\ a >= b

\* userDetails?.currentAlbumNumber || 1
AlbumNumber(n) == IF n = 0 THEN 1 ELSE n

\* const photosTaken = 10 - photoCount
PhotosTaken(count) == IF count = NaN THEN NaN ELSE photoCapacity - count

photosTaken == PhotosTaken(photoCount)

albumNumber == AlbumNumber(currentAlbumNumber)

folderName == FolderName(address)

CanonicalPrefix == Prefix(folderName, albumNumber)

addressParts == Split(address)

\* A search that keeps every folder starting with the house number.
PossibleFoldersByHouseNumber(parts) ==
  SelectSeq(BucketFolders, LAMBDA folder : StartsWith(folder, parts[1]))

\* allFiles.map(file => file.name.split('/')[0]).filter(unique)
\*   .filter(folder => folder.startsWith(houseNumber) && folder.endsWith(postcode))
PossibleFolders(parts) ==
  SelectSeq(BucketFolders,
            LAMBDA folder : StartsWith(folder, parts[1]) /\ EndsWith(folder, parts[2]))

Max(a, b) == IF a >= b THEN a ELSE b

\* The first poll (or the initial listing, 0) at which the canonical prefix
\* was listed with at least photosTaken files.
NoteCanon(prefix, n, at) ==
  IF canonHit = -1 /\ prefix = CanonicalPrefix /\ AtLeast(n, photosTaken)
    THEN at ELSE canonHit

\* ------------------------------------------------------------ the verifier
\* What the folders that the `break` of a legacy search leaves unexamined can
\* hold beyond the count adopted: nothing more (0), or, when a folder is left,
\* any larger number of photo files; the store decides.
LeftUnexamined(rest, count) ==
  {0} \cup (IF rest # <<>> THEN (count + 1)..MaxItems ELSE {})

\* A wait loop whose bound is off by one: it would take a 61st turn.
LoopGuardOffByOne(minutes, count) ==
  minutes <= maxWaitMinutes /\ Less(count, photosTaken)

\* `while (waitMinutes < maxWaitMinutes && totalPhotoCount < photosTaken)`
LoopGuard(minutes, count) == minutes < maxWaitMinutes /\ Less(count, photosTaken)

\* `if (totalPhotoCount >= photosTaken) break` at the end of a turn
SuccessBreak(count) == AtLeast(count, photosTaken)

\* A search before the wait loop that passes over a folder with one file.
AdoptsInitialMoreThanOne(count) == count > 1

\* `if (legacyPhotoFiles.length > 0)` in the search before the wait loop
AdoptsInitial(count) == count > 0

\* A search in the loop that passes over a folder with one file more than
\* the count.
AdoptsInLoopByTwo(count, total) == count > total + 1

\* `if (legacyPhotoFiles.length > totalPhotoCount)` in the search in the loop
AdoptsInLoop(count, total) == count > total

\* A handler that schedules the background task and leaves the response to it.
NotifyPrintWithoutAck ==
  /\ pc = "received"
  /\ pc' = "start"
  /\ UNCHANGED <<vvars, dvars, cvars>>

\* The request handler itself: the body is read, the acknowledgment is sent
\* (res.json), the background task is handed to setImmediate.
NotifyPrint ==
  /\ pc = "received"
  /\ ack' = "success"
  /\ pc' = "start"
  /\ UNCHANGED <<address, photoCount, currentAlbumNumber, derived, folderPrefix,
                 files, totalPhotoCount, waitMinutes, cands, sleeps, firstCount,
                 bestCount, canonHit, seen0, unexaminedMore, alerts>>
  /\ UNCHANGED <<dvars, cvars>>

\* The background task throws and its catch block logs the error: the
\* TypeError of address.replace on an absent address, or a call of the store
\* (the first listing, a listing of the legacy search, the re-listing of a
\* turn of the wait loop) that rejects.
BackgroundError ==
  /\ \/ pc = "start"
     \/ pc \in {"legacy0", "legacy"} /\ cands # <<>>
     \/ pc = "loop" /\ LoopGuard(waitMinutes, totalPhotoCount)
  /\ pc' = "failed"
  /\ UNCHANGED <<vvars, dvars, cvars>>

\* The key of the raw address is derived (folderName, in /notify-print and
\* in /upload alike).
DeriveKey ==
  /\ pc = "off"
  /\ Len(derived) < MaxDerivations
  /\ derived' = Append(derived, FolderName(address))
  /\ UNCHANGED <<address, photoCount, currentAlbumNumber, ack, folderPrefix, files,
                 totalPhotoCount, waitMinutes, cands, sleeps, firstCount,
                 bestCount, canonHit, seen0, unexaminedMore, alerts>>
  /\ UNCHANGED <<pc, dvars, cvars>>

\* A derived key comes back as an address (a client that sends the folder
\* name it was given) and its key is derived.
RederiveKey ==
  /\ pc = "off"
  /\ derived # <<>>
  /\ Len(derived) < MaxDerivations
  /\ derived' = Append(derived, FolderName(derived[Len(derived)]))
  /\ UNCHANGED <<address, photoCount, currentAlbumNumber, ack, folderPrefix, files,
                 totalPhotoCount, waitMinutes, cands, sleeps, firstCount,
                 bestCount, canonHit, seen0, unexaminedMore, alerts>>
  /\ UNCHANGED <<pc, dvars, cvars>>

\* A search before the wait loop made whenever the first listing is short.
SearchesInitiallyWhenShort(count, parts) ==
  Less(count, photosTaken) /\ Len(parts) >= 2 /\ Len(parts) = 2

\* `if (files.length === 0)`, `if (addressParts.length >= 2)`,
\* `if (addressParts.length === 2)`: the search before the wait loop is made.
SearchesInitially(count, parts) == count = 0 /\ Len(parts) >= 2 /\ Len(parts) = 2

\* The initial listing of the canonical prefix; with no file found and an
\* address of two or more parts the legacy search follows.
ListCanonical ==
  /\ pc = "start"
  /\ address # Missing
  /\ \E n \in 0..MaxItems, marker \in BOOLEAN :
       LET found == PhotoFiles(Listing(CanonicalPrefix, n, marker)) IN
       /\ folderPrefix' = CanonicalPrefix
       /\ files' = found
       /\ firstCount' = Len(found)
       /\ bestCount' = Len(found)
       /\ canonHit' = NoteCanon(CanonicalPrefix, Len(found), 0)
       /\ IF SearchesInitially(Len(found), addressParts)
            THEN /\ pc' = "legacy0"
                 /\ cands' = PossibleFolders(addressParts)
                 /\ UNCHANGED totalPhotoCount
            ELSE /\ pc' = "loop"
                 /\ cands' = <<>>
                 /\ totalPhotoCount' = Len(found)
  /\ UNCHANGED <<address, photoCount, currentAlbumNumber, derived, ack, waitMinutes, sleeps,
                 seen0, unexaminedMore, alerts>>
  /\ UNCHANGED <<dvars, cvars>>

\* One turn of `for (const legacyFolder of possibleFolders)` before the wait
\* loop: the first folder with any photo file is adopted.
LegacyInitial ==
  /\ pc = "legacy0"
  /\ IF cands = <<>>
       THEN /\ pc' = "loop"
            /\ totalPhotoCount' = Len(files)
            /\ UNCHANGED <<folderPrefix, files, cands, bestCount, canonHit, seen0,
                 unexaminedMore>>
       ELSE \E n \in 0..MaxItems, marker \in BOOLEAN :
              LET legacyPrefix == Prefix(Head(cands), albumNumber)
                  legacyPhotoFiles == PhotoFiles(Listing(legacyPrefix, n, marker))
              IN
              /\ bestCount' = Max(bestCount, Len(legacyPhotoFiles))
              /\ canonHit' = NoteCanon(legacyPrefix, Len(legacyPhotoFiles), 0)
              /\ seen0' = <<legacyPrefix, legacyPhotoFiles>>
              /\ IF AdoptsInitial(Len(legacyPhotoFiles))
                   THEN /\ files' = legacyPhotoFiles
                        /\ folderPrefix' = legacyPrefix
                        /\ totalPhotoCount' = Len(legacyPhotoFiles)
                        /\ cands' = <<>>
                        /\ unexaminedMore' \in LeftUnexamined(Tail(cands), Len(legacyPhotoFiles))
                        /\ pc' = "loop"
                   ELSE /\ cands' = Tail(cands)
                        /\ UNCHANGED <<files, folderPrefix, totalPhotoCount, pc,
                                       unexaminedMore>>
  /\ UNCHANGED <<address, photoCount, currentAlbumNumber, derived, ack, waitMinutes, sleeps,
                 firstCount, alerts>>
  /\ UNCHANGED <<dvars, cvars>>

\* One turn of the wait loop up to its re-listing of the active prefix:
\* sleep a minute, count it, list folderPrefix again.
Poll ==
  /\ pc = "loop"
  /\ LoopGuard(waitMinutes, totalPhotoCount)
  /\ sleeps' = sleeps + 1
  /\ seen0' = <<>>
  /\ unexaminedMore' = 0
  /\ waitMinutes' = waitMinutes + 1
  /\ \E n \in 0..MaxItems, marker \in BOOLEAN :
       LET retry == PhotoFiles(Listing(folderPrefix, n, marker)) IN
       /\ files' = retry
       /\ totalPhotoCount' = Len(retry)
       /\ bestCount' = Max(bestCount, Len(retry))
       /\ canonHit' = NoteCanon(folderPrefix, Len(retry), waitMinutes + 1)
       /\ IF Less(Len(retry), photosTaken) /\ Len(addressParts) = 2
            THEN pc' = "legacy" /\ cands' = PossibleFolders(addressParts)
            ELSE /\ pc' = IF SuccessBreak(Len(retry)) THEN "final" ELSE "loop"
                 /\ cands' = <<>>
  /\ UNCHANGED <<address, photoCount, currentAlbumNumber, derived, ack, folderPrefix,
                 firstCount, alerts>>
  /\ UNCHANGED <<dvars, cvars>>

\* One turn of `for (const legacyFolder of possibleFolders)` inside the wait
\* loop: the first folder with more photo files than the count is adopted.
LegacyInLoop ==
  /\ pc = "legacy"
  /\ IF cands = <<>>
       THEN /\ pc' = IF SuccessBreak(totalPhotoCount) THEN "final" ELSE "loop"
            /\ UNCHANGED <<folderPrefix, files, totalPhotoCount, cands, bestCount, canonHit,
                           unexaminedMore>>
       ELSE \E n \in 0..MaxItems, marker \in BOOLEAN :
              LET legacyPrefix == Prefix(Head(cands), albumNumber)
                  legacyPhotoFiles == PhotoFiles(Listing(legacyPrefix, n, marker))
              IN
              /\ bestCount' = Max(bestCount, Len(legacyPhotoFiles))
              /\ canonHit' = NoteCanon(legacyPrefix, Len(legacyPhotoFiles), waitMinutes)
              /\ IF AdoptsInLoop(Len(legacyPhotoFiles), totalPhotoCount)
                   THEN /\ files' = legacyPhotoFiles
                        /\ folderPrefix' = legacyPrefix
                        /\ totalPhotoCount' = Len(legacyPhotoFiles)
                        /\ cands' = <<>>
                        /\ unexaminedMore' \in LeftUnexamined(Tail(cands), Len(legacyPhotoFiles))
                        /\ pc' = IF SuccessBreak(Len(legacyPhotoFiles))
                                   THEN "final" ELSE "loop"
                   ELSE /\ cands' = Tail(cands)
                        /\ UNCHANGED <<files, folderPrefix, totalPhotoCount, pc,
                                       unexaminedMore>>
  /\ UNCHANGED <<address, photoCount, currentAlbumNumber, derived, ack, waitMinutes, sleeps,
                 firstCount, seen0, alerts>>
  /\ UNCHANGED <<dvars, cvars>>

\* uploadSuccessRate of sendManualReviewAlert:
\* Math.round((actualCount / expectedCount) * 100), the nearest integer with
\* halves rounded up, for a count of 0 or more and an expected count above 0.
UploadSuccessRate(actualCount, expectedCount) ==
  (200 * actualCount + expectedCount) \div (2 * expectedCount)

\* A final verification that alerts on a short count and goes on to the
\* uploads all the same.
FinalVerificationWithoutReturn ==
  /\ pc = "final" \/ (pc = "loop" /\ ~LoopGuard(waitMinutes, totalPhotoCount))
  /\ alerts' = IF Less(totalPhotoCount, photosTaken)
                 THEN Append(alerts, <<totalPhotoCount, photosTaken>>) ELSE alerts
  /\ pc' = "dispatch"
  /\ UNCHANGED <<address, photoCount, currentAlbumNumber, derived, ack, folderPrefix, files,
                 totalPhotoCount, waitMinutes, cands, sleeps, firstCount,
                 bestCount, canonHit, seen0, unexaminedMore>>
  /\ UNCHANGED <<dvars, cvars>>

\* A final verification that returns on a short count without the alert.
FinalVerificationWithoutAlert ==
  /\ pc = "final" \/ (pc = "loop" /\ ~LoopGuard(waitMinutes, totalPhotoCount))
  /\ pc' = IF Less(totalPhotoCount, photosTaken) THEN "incomplete" ELSE "dispatch"
  /\ UNCHANGED <<vvars, dvars, cvars>>

\* The loop is left (its guard is false, or the break on success): the final
\* verification.  Short of photosTaken the alert is sent and the task returns.
FinalVerification ==
  /\ pc = "final" \/ (pc = "loop" /\ ~LoopGuard(waitMinutes, totalPhotoCount))
  /\ IF Less(totalPhotoCount, photosTaken)
       THEN /\ alerts' = Append(alerts, <<totalPhotoCount, photosTaken>>)
            /\ pc' = "incomplete"
       ELSE /\ pc' = "dispatch"
            /\ UNCHANGED alerts
  /\ UNCHANGED <<address, photoCount, currentAlbumNumber, derived, ack, folderPrefix, files,
                 totalPhotoCount, waitMinutes, cands, sleeps, firstCount,
                 bestCount, canonHit, seen0, unexaminedMore>>
  /\ UNCHANGED <<dvars, cvars>>

\* ------------------------------------------- the verifier of another session
\* The request of the other session: an address of three parts
\* (email_houseNumber_postcode), for which no legacy search is made, and a
\* remaining counter of photoCapacity - 2.
otherAddress == <<"e", "_", "1", "_", "A">>

otherPhotosTaken == PhotosTaken(photoCapacity - 2)

\* No other session has sent a signal.
NoOther == [pc |-> "none", waitMinutes |-> 0, totalPhotoCount |-> 0]

\* Its background task is scheduled.
OtherStart == [pc |-> "start", waitMinutes |-> 0, totalPhotoCount |-> 0]

\* Its `while (waitMinutes < maxWaitMinutes && totalPhotoCount < photosTaken)`
OtherLoopGuard ==
  other.waitMinutes < maxWaitMinutes /\ Less(other.totalPhotoCount, otherPhotosTaken)

\* Its initial listing of its canonical prefix; its address has three parts,
\* so no legacy search follows.
OtherListCanonical ==
  /\ other.pc = "start"
  /\ Len(Split(otherAddress)) # 2
  /\ \E n \in 0..MaxItems, marker \in BOOLEAN :
       LET found == PhotoFiles(Listing(Prefix(FolderName(otherAddress), 1), n, marker)) IN
       other' = [pc |-> "loop", waitMinutes |-> 0, totalPhotoCount |-> Len(found)]
  /\ UNCHANGED <<i, retryCount, dropboxSuccess, backoffDelay, attempts, delays,
                 results, order, twin, up, withRetry, lastCall>>
  /\ UNCHANGED <<pc, vvars, cvars>>

\* A verifier whose count is a variable of the module, shared by every
\* request, instead of a local of the background task.
OtherPollSharingCount ==
  /\ other.pc = "loop"
  /\ OtherLoopGuard
  /\ other.waitMinutes < MaxOtherPolls
  /\ \E n \in 0..MaxItems, marker \in BOOLEAN :
       LET retry == PhotoFiles(Listing(Prefix(FolderName(otherAddress), 1), n, marker)) IN
       /\ other' = [pc |-> IF AtLeast(Len(retry), otherPhotosTaken) THEN "final" ELSE "loop",
                    waitMinutes |-> other.waitMinutes + 1,
                    totalPhotoCount |-> Len(retry)]
       /\ totalPhotoCount' = Len(retry)
  /\ UNCHANGED <<address, photoCount, currentAlbumNumber, derived, ack, folderPrefix,
                 files, waitMinutes, cands, sleeps, firstCount, bestCount, canonHit,
                 seen0, unexaminedMore, alerts>>
  /\ UNCHANGED <<i, retryCount, dropboxSuccess, backoffDelay, attempts, delays,
                 results, order, twin, up, withRetry, lastCall>>
  /\ UNCHANGED <<pc, cvars>>

\* One turn of its wait loop: sleep a minute, count it, list its prefix
\* again, break on success.  Its turns are followed up to MaxOtherPolls.
OtherPoll ==
  /\ other.pc = "loop"
  /\ OtherLoopGuard
  /\ other.waitMinutes < MaxOtherPolls
  /\ \E n \in 0..MaxItems, marker \in BOOLEAN :
       LET retry == PhotoFiles(Listing(Prefix(FolderName(otherAddress), 1), n, marker)) IN
       other' = [pc |-> IF AtLeast(Len(retry), otherPhotosTaken) THEN "final" ELSE "loop",
                 waitMinutes |-> other.waitMinutes + 1,
                 totalPhotoCount |-> Len(retry)]
  /\ UNCHANGED <<i, retryCount, dropboxSuccess, backoffDelay, attempts, delays,
                 results, order, twin, up, withRetry, lastCall>>
  /\ UNCHANGED <<pc, vvars, cvars>>

\* Its final verification: the verdict.
OtherFinalVerification ==
  /\ other.pc = "final" \/ (other.pc = "loop" /\ ~OtherLoopGuard)
  /\ other' = [other EXCEPT !.pc = IF Less(other.totalPhotoCount, otherPhotosTaken)
                                     THEN "incomplete" ELSE "dispatch"]
  /\ UNCHANGED <<i, retryCount, dropboxSuccess, backoffDelay, attempts, delays,
                 results, order, twin, up, withRetry, lastCall>>
  /\ UNCHANGED <<pc, vvars, cvars>>

\* ------------------------------------------------------------ the upload
\* `const maxRetries = 3` of the upload loop
maxRetries == 3

\* The retry_after seconds a rate-limited response carries (0: the field is absent).
RetryAfterSecs == {0, 5}

\* A text is a sequence of words; text.includes(word).
Includes(text, word) == \E k \in 1..Len(text) : text[k] = word

TooMany == "too_many_write_operations"

\* What one call of uploadToDropboxFromFirebase meets.  cred: the token manager
\* is degraded, hands out no token, or hands out a token.  Then the download
\* and the fetch throw ("network": a failed download, a network error, the 30 s
\* abort) or the fetch answers: ok, or a failure whose body is errorText, with
\* the error_summary and error.retry_after parsed from it (json: the body
\* parses; summary <<>>: no error_summary; retry_after 0: none).
Answers ==
  { [kind |-> "ok", json |-> TRUE, text |-> <<>>, summary |-> <<>>, retry_after |-> 0],
    [kind |-> "network", json |-> FALSE, text |-> <<>>, summary |-> <<>>, retry_after |-> 0],
    [kind |-> "fail", json |-> TRUE, text |-> <<"path", "conflict">>,
     summary |-> <<"path", "conflict">>, retry_after |-> 0],
    [kind |-> "fail", json |-> FALSE, text |-> <<"Internal", "Server", "Error">>,
     summary |-> <<>>, retry_after |-> 0],
    [kind |-> "fail", json |-> TRUE, text |-> <<"error", TooMany>>,
     summary |-> <<>>, retry_after |-> 0] }
  \cup
  { [kind |-> "fail", json |-> TRUE, text |-> <<"error_summary", TooMany>>,
     summary |-> <<TooMany>>, retry_after |-> r] : r \in RetryAfterSecs }

Creds == {"degraded", "no_token", "token"}

\* try { errorDetails = JSON.parse(errorText) } catch { errorDetails = { error_summary: errorText } }
ErrorSummary(answer) == IF answer.json THEN answer.summary ELSE answer.text

\* errorDetails.error?.retry_after || 1
RetryAfter(answer) ==
  IF answer.json /\ answer.retry_after # 0 THEN answer.retry_after ELSE 1

\* A call that throws where it should skip.
UploadToDropboxFromFirebaseThrowingWithoutToken(cred, answer) ==
  IF cred = "degraded"
    THEN [returned |-> TRUE, skipped |-> TRUE, message |-> <<"degraded_mode">>,
          isRateLimit |-> FALSE, retryAfter |-> 0]
  ELSE IF cred = "no_token"
    THEN [returned |-> FALSE, skipped |-> FALSE, message |-> <<"no_token">>,
          isRateLimit |-> FALSE, retryAfter |-> 0]
  ELSE IF answer.kind = "network"
    THEN [returned |-> FALSE, skipped |-> FALSE, message |-> <<"network">>,
          isRateLimit |-> FALSE, retryAfter |-> 0]
  ELSE IF answer.kind = "ok"
    THEN [returned |-> TRUE, skipped |-> FALSE, message |-> <<>>,
          isRateLimit |-> FALSE, retryAfter |-> 0]
  ELSE IF ErrorSummary(answer) # <<>> /\ Includes(ErrorSummary(answer), TooMany)
    THEN [returned |-> FALSE, skipped |-> FALSE,
          message |-> <<"Rate", "limited", "by", "Dropbox">>,
          isRateLimit |-> TRUE, retryAfter |-> RetryAfter(answer) * 1000]
  ELSE [returned |-> FALSE, skipped |-> FALSE,
        message |-> <<"Failed", "to", "upload", "to", "Dropbox:">>
                      \o (IF ErrorSummary(answer) # <<>> THEN ErrorSummary(answer)
                          ELSE answer.text),
        isRateLimit |-> FALSE, retryAfter |-> 0]

\* uploadToDropboxFromFirebase: what the call gives back.  returned: it
\* resolved (an upload, or { skipped: true }); otherwise the error it threw,
\* with its message, isRateLimit and retryAfter (ms).
UploadToDropboxFromFirebase(cred, answer) ==
  IF cred = "degraded"
    THEN [returned |-> TRUE, skipped |-> TRUE, message |-> <<"degraded_mode">>,
          isRateLimit |-> FALSE, retryAfter |-> 0]
  ELSE IF cred = "no_token"
    THEN [returned |-> TRUE, skipped |-> TRUE, message |-> <<"no_token">>,
          isRateLimit |-> FALSE, retryAfter |-> 0]
  ELSE IF answer.kind = "network"
    THEN [returned |-> FALSE, skipped |-> FALSE, message |-> <<"network">>,
          isRateLimit |-> FALSE, retryAfter |-> 0]
  ELSE IF answer.kind = "ok"
    THEN [returned |-> TRUE, skipped |-> FALSE, message |-> <<>>,
          isRateLimit |-> FALSE, retryAfter |-> 0]
  ELSE IF ErrorSummary(answer) # <<>> /\ Includes(ErrorSummary(answer), TooMany)
    THEN [returned |-> FALSE, skipped |-> FALSE,
          message |-> <<"Rate", "limited", "by", "Dropbox">>,
          isRateLimit |-> TRUE, retryAfter |-> RetryAfter(answer) * 1000]
  ELSE [returned |-> FALSE, skipped |-> FALSE,
        message |-> <<"Failed", "to", "upload", "to", "Dropbox:">>
                      \o (IF ErrorSummary(answer) # <<>> THEN ErrorSummary(answer)
                          ELSE answer.text),
        isRateLimit |-> FALSE, retryAfter |-> 0]

\* The uploads one call sends to Dropbox: none when it returns at the
\* degraded-mode test or at the token test, none or one when the download or
\* the fetch throws, one when Dropbox answers.
DropboxRequests(cred, answer) ==
  IF cred \in {"degraded", "no_token"} THEN {0}
  ELSE IF answer.kind = "network" THEN {0, 1}
  ELSE {1}

NoCall == [cred |-> "none", skipped |-> FALSE, requests |-> 0, path |-> <<>>]

\* A destination path built from the name the file has in the bucket.
DropboxPathUnderActivePrefix(file) ==
  <<"30-clicks-import", file.folder, file.album, file.name>>

\* const filename = file.name.split('/').pop();
\* dropboxPath = `/30-clicks-import/${folderName}/album${albumNumber}/${filename}`,
\* as its segments.
DropboxPath(file) ==
  <<"30-clicks-import", folderName, albumNumber, file.name>>

RECURSIVE Pow2(_)
Pow2(n) == IF n <= 0 THEN 1 ELSE 2 * Pow2(n - 1)

Min(a, b) == IF a <= b THEN a ELSE b

\* The upload loop's own test for a rate-limit failure:
\* `err.message && err.message.includes('too_many_write_operations')`
Classified(err) == err.message # <<>> /\ Includes(err.message, TooMany)

\* A backoff whose exponent is the count of failures itself.
BackoffDelayFromCount(err, count) ==
  IF Classified(err)
    THEN 5000
    ELSE Min(2000 * Pow2(count), 8000)

\* The delay the upload loop takes after a caught error, retryCount already
\* counted up:
\*   if (err.message && err.message.includes('too_many_write_operations')) 5000
\*   else Math.min(2000 * Math.pow(2, retryCount - 1), 8000)
BackoffDelay(err, count) ==
  IF Classified(err)
    THEN 5000
    ELSE Min(2000 * Pow2(count - 1), 8000)

\* A loop that takes one turn more.
UploadLoopGuardOneMore(success, count) == ~success /\ count <= maxRetries

\* `while (!dropboxSuccess && retryCount < maxRetries)`
UploadLoopGuard(success, count) == ~success /\ count < maxRetries

\* A catch block that waits after the first failure only.
WaitsAfterFirstFailureOnly(count) == count < maxRetries - 1

\* `if (retryCount < maxRetries)` in the catch block: a delay follows
WaitsAfterFailure(count) == count < maxRetries

filesToUpload == files

\* The upload task starts: the first file, if any.
StartUploads ==
  /\ pc = "dispatch"
  /\ IF Len(filesToUpload) >= 1
       THEN /\ pc' = "attempt"
            /\ i' = 1
       ELSE /\ pc' = "done"
            /\ UNCHANGED i
  /\ retryCount' = 0
  /\ dropboxSuccess' = FALSE
  /\ UNCHANGED <<backoffDelay, attempts, delays, results, order, twin, other, up, withRetry>>
  /\ lastCall' = NoCall
  /\ UNCHANGED <<vvars, cvars>>

\* One turn of `while (!dropboxSuccess && retryCount < maxRetries)`: the call,
\* and on a throw the catch block up to its delay.
UploadAttempt ==
  /\ pc = "attempt"
  /\ UploadLoopGuard(dropboxSuccess, retryCount)
  /\ \E cred \in Creds, answer \in Answers :
       LET res == UploadToDropboxFromFirebase(cred, answer) IN
       /\ attempts' = attempts + 1
       /\ \E requests \in DropboxRequests(cred, answer) :
            lastCall' = [cred |-> cred, skipped |-> res.skipped, requests |-> requests,
                         path |-> DropboxPath(filesToUpload[i])]
       /\ order' = IF attempts = 0 THEN Append(order, i) ELSE order
       /\ IF res.returned
            THEN /\ dropboxSuccess' = TRUE
                 /\ pc' = "fileEnd"
                 /\ UNCHANGED <<retryCount, backoffDelay, delays>>
            ELSE /\ retryCount' = retryCount + 1
                 /\ UNCHANGED dropboxSuccess
                 /\ IF WaitsAfterFailure(retryCount + 1)
                      THEN /\ backoffDelay' = BackoffDelay(res, retryCount + 1)
                           /\ delays' = Append(delays,
                                  [isRateLimit |-> res.isRateLimit,
                                   tooMany |-> Classified(res),
                                   retryAfter |-> res.retryAfter,
                                   waited |-> BackoffDelay(res, retryCount + 1)])
                           /\ pc' = "backoff"
                      ELSE /\ pc' = IF UploadLoopGuard(dropboxSuccess, retryCount + 1)
                                      THEN "attempt" ELSE "fileEnd"
                           /\ UNCHANGED <<backoffDelay, delays>>
  /\ UNCHANGED <<i, results, twin, other, up, withRetry>>
  /\ UNCHANGED <<vvars, cvars>>

\* setTimeout(resolve, backoffDelay) fires: the loop's guard is read again.
BackoffElapsed ==
  /\ pc = "backoff"
  /\ pc' = IF UploadLoopGuard(dropboxSuccess, retryCount) THEN "attempt" ELSE "fileEnd"
  /\ backoffDelay' = 0
  /\ UNCHANGED <<i, retryCount, dropboxSuccess, attempts, delays, results, order, twin, other, up, withRetry>>
  /\ lastCall' = NoCall
  /\ UNCHANGED <<vvars, cvars>>

\* An upload loop that gives the batch up at the first file whose attempts
\* are exhausted.
NextFileStopsOnFailure ==
  /\ pc = "fileEnd"
  /\ results' = Append(results, dropboxSuccess)
  /\ IF dropboxSuccess /\ i < Len(filesToUpload)
       THEN /\ i' = i + 1
            /\ retryCount' = 0
            /\ dropboxSuccess' = FALSE
            /\ attempts' = 0
            /\ delays' = <<>>
            /\ pc' = "attempt"
       ELSE /\ pc' = "done"
            /\ UNCHANGED <<i, retryCount, dropboxSuccess, attempts, delays>>
  /\ UNCHANGED <<backoffDelay, order, twin, other, up, withRetry, lastCall>>
  /\ UNCHANGED <<vvars, cvars>>

\* The while loop of a file is over: the 2.5 s gap and the next file, or the
\* end of the batch.
NextFile ==
  /\ pc = "fileEnd"
  /\ results' = Append(results, dropboxSuccess)
  /\ IF i < Len(filesToUpload)
       THEN /\ i' = i + 1
            /\ retryCount' = 0
            /\ dropboxSuccess' = FALSE
            /\ attempts' = 0
            /\ delays' = <<>>
            /\ pc' = "attempt"
       ELSE /\ pc' = "done"
            /\ UNCHANGED <<i, retryCount, dropboxSuccess, attempts, delays>>
  /\ UNCHANGED <<backoffDelay, order, twin, other, up, withRetry>>
  /\ lastCall' = NoCall
  /\ UNCHANGED <<vvars, cvars>>

\* ------------------------------------------------- a second signal's uploads
\* /notify-print keeps nothing about the sessions it is working on: a second
\* completion signal of a session starts a background task of its own, with
\* its own listing of the same prefix and its own upload loop.  Its loop is
\* the one above, its locals in one record; pc "uploading": its call of
\* uploadToDropboxFromFirebase is pending.
NoTwin == [pc |-> "none", i |-> 0, retryCount |-> 0, dropboxSuccess |-> FALSE]

\* The loop of a file is over: the next file, or the end of the batch.
TwinAfterFile ==
  IF twin.i < Len(filesToUpload)
    THEN [pc |-> "call", i |-> twin.i + 1, retryCount |-> 0, dropboxSuccess |-> FALSE]
    ELSE [twin EXCEPT !.pc = "done"]

\* The second task's verification found the same files: its uploads start.
TwinStart ==
  /\ twin = NoTwin
  /\ pc \in {"dispatch", "attempt", "backoff", "fileEnd", "done"}
  /\ Len(filesToUpload) >= 1
  /\ twin' = [pc |-> "call", i |-> 1, retryCount |-> 0, dropboxSuccess |-> FALSE]
  /\ UNCHANGED <<i, retryCount, dropboxSuccess, backoffDelay, attempts, delays,
                 results, order, other, up, withRetry, lastCall>>
  /\ UNCHANGED <<pc, vvars, cvars>>

\* Its `await uploadToDropboxFromFirebase(file.name, dropboxPath)` is called.
TwinCall ==
  /\ twin.pc = "call"
  /\ twin' = [twin EXCEPT !.pc = "uploading"]
  /\ UNCHANGED <<i, retryCount, dropboxSuccess, backoffDelay, attempts, delays,
                 results, order, other, up, withRetry, lastCall>>
  /\ UNCHANGED <<pc, vvars, cvars>>

\* The call settles: success, or the catch block.
TwinAnswer ==
  /\ twin.pc = "uploading"
  /\ \E cred \in Creds, answer \in Answers :
       LET res == UploadToDropboxFromFirebase(cred, answer)
           failed == [twin EXCEPT !.retryCount = twin.retryCount + 1]
       IN
       twin' = IF res.returned THEN TwinAfterFile
               ELSE IF WaitsAfterFailure(failed.retryCount)
                 THEN [failed EXCEPT !.pc = "backoff"]
               ELSE IF UploadLoopGuard(FALSE, failed.retryCount)
                 THEN [failed EXCEPT !.pc = "call"]
               ELSE TwinAfterFile
  /\ UNCHANGED <<i, retryCount, dropboxSuccess, backoffDelay, attempts, delays,
                 results, order, other, up, withRetry, lastCall>>
  /\ UNCHANGED <<pc, vvars, cvars>>

\* Its retry delay is over.
TwinBackoffElapsed ==
  /\ twin.pc = "backoff"
  /\ twin' = IF UploadLoopGuard(FALSE, twin.retryCount)
               THEN [twin EXCEPT !.pc = "call"]
               ELSE TwinAfterFile
  /\ UNCHANGED <<i, retryCount, dropboxSuccess, backoffDelay, attempts, delays,
                 results, order, other, up, withRetry, lastCall>>
  /\ UNCHANGED <<pc, vvars, cvars>>

\* ------------------------------------------------------------ the token manager
\* `this.maxConsecutiveFailures = 3`
maxConsecutiveFailures == 3
\* `async refreshAccessToken(maxRetries = 3)`
refreshMaxRetries == 3
\* `this.refreshTimeout = 3.5 * 60 * 60 * 1000`, the unit of the model's clock
refreshTimeout == 1

\* How far the clock runs past the start of the process.
MaxTicks == 2
\* The cap on consecutiveFailures (the timer's refreshes go on failing for ever).
MaxFailures == 4

\* Who calls the token manager: the setInterval / startup refresh, and the
\* uploads of two background tasks (through getValidAccessToken).
Timer == "timer"
Uploads == {"up1", "up2"}
Callers == {Timer} \cup Uploads

NoToken == <<"none", 0>>
EnvToken == <<"env", 0>>
Idle == [pc |-> "idle", attempt |-> 0]
NothingReturned == <<"nothing", 0>>
\* No alertAdmin call.
NoAlert == [error |-> "", consecutiveFailures |-> 0, timestamp |-> 0, lastRefresh |-> 0]
Threw == <<"threw", 0>>

\* A shouldAttemptDropboxOperation() that never refuses.
ShouldAttemptAlways == TRUE

\* shouldAttemptDropboxOperation()
ShouldAttemptDropboxOperation == ~isDegradedMode

\* A staleness test that is already met at refreshTimeout.
NeedsRefreshAtTimeout == (now - lastRefresh >= refreshTimeout) \/ accessToken = NoToken

\* timeSinceRefresh > this.refreshTimeout || !this.accessToken
NeedsRefresh == (now - lastRefresh > refreshTimeout) \/ accessToken = NoToken

\* A getValidAccessToken() without the degraded-mode test.
GetValidAccessTokenPlanNoDegradedTest ==
  IF NeedsRefresh THEN [refresh |-> TRUE, token |-> NoToken]
  ELSE [refresh |-> FALSE, token |-> accessToken]

\* getValidAccessToken() up to its await: whether it calls refreshAccessToken,
\* and the token it returns when it does not.
GetValidAccessTokenPlan ==
  IF isDegradedMode THEN [refresh |-> FALSE, token |-> accessToken]
  ELSE IF NeedsRefresh THEN [refresh |-> TRUE, token |-> NoToken]
  ELSE [refresh |-> FALSE, token |-> accessToken]

\* An upload asks for a token: the cached one at once, or a refresh starts.
GetValidAccessToken(c) ==
  /\ c \in Uploads
  /\ call[c].pc = "idle"
  /\ call' = IF GetValidAccessTokenPlan.refresh
               THEN [call EXCEPT ![c] = [pc |-> "fetch", attempt |-> 1]]
               ELSE call
  /\ returned' = [returned EXCEPT ![c] = IF GetValidAccessTokenPlan.refresh
                                           THEN NothingReturned
                                           ELSE GetValidAccessTokenPlan.token]
  /\ adminAlert' = NoAlert
  /\ UNCHANGED <<accessToken, lastRefresh, isDegradedMode, consecutiveFailures,
                 now, failsSinceReset, everCached>>
  /\ UNCHANGED <<pc, vvars, dvars>>

\* The setInterval callback (and the startup setTimeout) calls
\* refreshAccessToken directly.
ScheduledRefresh ==
  /\ call[Timer].pc = "idle"
  /\ call' = [call EXCEPT ![Timer] = [pc |-> "fetch", attempt |-> 1]]
  /\ returned' = [returned EXCEPT ![Timer] = NothingReturned]
  /\ adminAlert' = NoAlert
  /\ UNCHANGED <<accessToken, lastRefresh, isDegradedMode, consecutiveFailures,
                 now, failsSinceReset, everCached>>
  /\ UNCHANGED <<pc, vvars, dvars>>

\* A success path that leaves the failure count as it is.
RefreshSucceedsKeepingCount(c) ==
  /\ accessToken' = <<"issued", now>>
  /\ lastRefresh' = now
  /\ isDegradedMode' = FALSE
  /\ call' = [call EXCEPT ![c] = Idle]
  /\ failsSinceReset' = 0
  /\ everCached' = TRUE
  /\ returned' = [returned EXCEPT ![c] = <<"issued", now>>]
  /\ adminAlert' = NoAlert
  /\ UNCHANGED consecutiveFailures

\* The lines after a good answer of the token endpoint.
RefreshSucceeds(c) ==
  /\ accessToken' = <<"issued", now>>
  /\ lastRefresh' = now
  /\ consecutiveFailures' = 0
  /\ isDegradedMode' = FALSE
  /\ call' = [call EXCEPT ![c] = Idle]
  /\ failsSinceReset' = 0
  /\ everCached' = TRUE
  /\ returned' = [returned EXCEPT ![c] = <<"issued", now>>]
  /\ adminAlert' = NoAlert

\* The messages of the errors an attempt of refreshAccessToken catches:
\* `HTTP ${status}: ...`, 'No access token in response', and what fetch or
\* response.json() rejects with (a network error, the 10 s abort).
RefreshErrors == {"HTTP", "No access token in response", "network"}

\* The details handleTokenRefreshFailure hands to alertAdmin, the failure
\* already counted.
AlertDetails(lastError, failures) ==
  [error |-> lastError, consecutiveFailures |-> failures, timestamp |-> now,
   lastRefresh |-> lastRefresh]

\* A handleTokenRefreshFailure that drops the cached token.
HandleTokenRefreshFailureDroppingToken(c, lastError) ==
  /\ consecutiveFailures < MaxFailures
  /\ consecutiveFailures' = consecutiveFailures + 1
  /\ failsSinceReset' = failsSinceReset + 1
  /\ adminAlert' = AlertDetails(lastError, consecutiveFailures + 1)
  /\ call' = [call EXCEPT ![c] = [pc |-> "alert", attempt |-> call[c].attempt]]
  /\ accessToken' = NoToken
  /\ UNCHANGED <<lastRefresh, isDegradedMode, everCached, returned>>

\* A handleTokenRefreshFailure that alerts nobody.
HandleTokenRefreshFailureSilent(c, lastError) ==
  /\ consecutiveFailures < MaxFailures
  /\ consecutiveFailures' = consecutiveFailures + 1
  /\ failsSinceReset' = failsSinceReset + 1
  /\ adminAlert' = NoAlert
  /\ call' = [call EXCEPT ![c] = [pc |-> "alert", attempt |-> call[c].attempt]]
  /\ UNCHANGED <<accessToken, lastRefresh, isDegradedMode, everCached, returned>>

\* A failure handler whose increment is lost while another call's handler
\* is still awaiting its alert.
HandleTokenRefreshFailureLosingIncrement(c, lastError) ==
  /\ consecutiveFailures < MaxFailures
  /\ consecutiveFailures' =
       IF \E d \in Callers \ {c} : call[d].pc = "alert"
         THEN consecutiveFailures ELSE consecutiveFailures + 1
  /\ failsSinceReset' = failsSinceReset + 1
  /\ adminAlert' = AlertDetails(lastError, consecutiveFailures + 1)
  /\ call' = [call EXCEPT ![c] = [pc |-> "alert", attempt |-> call[c].attempt]]
  /\ UNCHANGED <<accessToken, lastRefresh, isDegradedMode, everCached, returned>>

\* handleTokenRefreshFailure up to `await this.alertAdmin(...)`: the failure
\* is counted and alertAdmin, which runs to its end when called, logs it.
HandleTokenRefreshFailure(c, lastError) ==
  /\ consecutiveFailures < MaxFailures
  /\ consecutiveFailures' = consecutiveFailures + 1
  /\ failsSinceReset' = failsSinceReset + 1
  /\ adminAlert' = AlertDetails(lastError, consecutiveFailures + 1)
  /\ call' = [call EXCEPT ![c] = [pc |-> "alert", attempt |-> call[c].attempt]]
  /\ UNCHANGED <<accessToken, lastRefresh, isDegradedMode, everCached, returned>>

\* One attempt of refreshAccessToken ends: the fetch answers with a token, or
\* the attempt fails (an error status, no access_token, a network error, the
\* 10 s abort); a failed last attempt enters handleTokenRefreshFailure, an
\* earlier one waits for its retry.
RefreshAnswer(c) ==
  /\ call[c].pc = "fetch"
  /\ \E ok \in BOOLEAN, error \in RefreshErrors :
       IF ok THEN RefreshSucceeds(c)
       ELSE IF call[c].attempt = refreshMaxRetries
         THEN HandleTokenRefreshFailure(c, error)
       ELSE /\ call' = [call EXCEPT ![c] = [pc |-> "wait", attempt |-> call[c].attempt]]
            /\ adminAlert' = NoAlert
            /\ UNCHANGED <<accessToken, lastRefresh, isDegradedMode,
                           consecutiveFailures, failsSinceReset, everCached,
                           returned>>
  /\ UNCHANGED now
  /\ UNCHANGED <<pc, vvars, dvars>>

\* The retry delay (2^attempt seconds) is over: the next attempt.
RefreshRetry(c) ==
  /\ call[c].pc = "wait"
  /\ call' = [call EXCEPT ![c] = [pc |-> "fetch", attempt |-> call[c].attempt + 1]]
  /\ UNCHANGED returned
  /\ adminAlert' = NoAlert
  /\ UNCHANGED <<accessToken, lastRefresh, isDegradedMode, consecutiveFailures,
                 now, failsSinceReset, everCached>>
  /\ UNCHANGED <<pc, vvars, dvars>>

\* A threshold test that trips one failure early.
DegradedAfterFailureEarly ==
  IF consecutiveFailures >= maxConsecutiveFailures - 1 THEN TRUE ELSE isDegradedMode

\* The flag handleTokenRefreshFailure leaves after alertAdmin.
DegradedAfterFailure ==
  IF consecutiveFailures >= maxConsecutiveFailures THEN TRUE ELSE isDegradedMode

\* What handleTokenRefreshFailure returns: the cached token, or null.
TokenAfterFailure == IF accessToken # NoToken THEN accessToken ELSE NoToken

\* A handleTokenRefreshFailure that ends by rethrowing the last error.
AlertDoneThrowing(c) ==
  /\ call[c].pc = "alert"
  /\ isDegradedMode' = DegradedAfterFailure
  /\ call' = [call EXCEPT ![c] = Idle]
  /\ returned' = [returned EXCEPT ![c] = Threw]
  /\ adminAlert' = NoAlert
  /\ UNCHANGED <<accessToken, lastRefresh, consecutiveFailures, now, failsSinceReset,
                 everCached>>
  /\ UNCHANGED <<pc, vvars, dvars>>

\* handleTokenRefreshFailure after `await this.alertAdmin(...)`: the
\* threshold test, and the return of the cached token (or null).
AlertDone(c) ==
  /\ call[c].pc = "alert"
  /\ isDegradedMode' = DegradedAfterFailure
  /\ call' = [call EXCEPT ![c] = Idle]
  /\ returned' = [returned EXCEPT ![c] = TokenAfterFailure]
  /\ adminAlert' = NoAlert
  /\ UNCHANGED <<accessToken, lastRefresh, consecutiveFailures, now, failsSinceReset,
                 everCached>>
  /\ UNCHANGED <<pc, vvars, dvars>>

\* exitDegradedMode()
ExitDegradedMode ==
  /\ isDegradedMode' = FALSE
  /\ consecutiveFailures' = 0
  /\ failsSinceReset' = 0
  /\ adminAlert' = NoAlert
  /\ UNCHANGED <<accessToken, lastRefresh, now, call, everCached, returned>>
  /\ UNCHANGED <<pc, vvars, dvars>>

\* refreshTimeout goes by.
Tick ==
  /\ now < refreshTimeout + 1 + MaxTicks
  /\ now' = now + 1
  /\ UNCHANGED returned
  /\ adminAlert' = NoAlert
  /\ UNCHANGED <<accessToken, lastRefresh, isDegradedMode, consecutiveFailures,
                 call, failsSinceReset, everCached>>
  /\ UNCHANGED <<pc, vvars, dvars>>

\* ------------------------------------------------- one upload call, in steps
\* The background task whose upload call is followed.
Uploader == "up1"

\* No call of uploadToDropboxFromFirebase was made yet.
NoUpload == [pc |-> "idle", degraded |-> FALSE, refreshed |-> FALSE, reads |-> 0,
             requests |-> 0, result |-> "none"]

\* `if (!token) return { skipped: true, reason: 'no_token' }`, else on to
\* the download.
AfterToken(u, token) ==
  IF token = NoToken THEN [u EXCEPT !.pc = "idle", !.result = "no_token"]
  ELSE [u EXCEPT !.pc = "download"]

\* uploadToDropboxFromFirebase is called and runs to its first await: the
\* degraded-mode test, then getValidAccessToken(), which hands the cached
\* token back or starts a refresh.
UploadCall ==
  /\ up.pc = "idle"
  /\ call[Uploader].pc = "idle"
  /\ LET called == [NoUpload EXCEPT !.degraded = isDegradedMode] IN
     IF ~ShouldAttemptDropboxOperation
       THEN /\ up' = [called EXCEPT !.result = "degraded_mode"]
            /\ UNCHANGED <<call, returned>>
     ELSE IF GetValidAccessTokenPlan.refresh
       THEN /\ up' = [called EXCEPT !.pc = "token", !.refreshed = TRUE]
            /\ call' = [call EXCEPT ![Uploader] = [pc |-> "fetch", attempt |-> 1]]
            /\ returned' = [returned EXCEPT ![Uploader] = NothingReturned]
     ELSE /\ up' = AfterToken(called, GetValidAccessTokenPlan.token)
          /\ returned' = [returned EXCEPT ![Uploader] = GetValidAccessTokenPlan.token]
          /\ UNCHANGED call
  /\ adminAlert' = NoAlert
  /\ UNCHANGED <<accessToken, lastRefresh, isDegradedMode, consecutiveFailures,
                 now, failsSinceReset, everCached>>
  /\ UNCHANGED <<i, retryCount, dropboxSuccess, backoffDelay, attempts, delays,
                 results, order, twin, other, withRetry, lastCall>>
  /\ UNCHANGED <<pc, vvars>>

\* The refresh it awaited is over: `const token = await ...` resumes.
UploadTokenReturned ==
  /\ up.pc = "token"
  /\ call[Uploader] = Idle
  /\ up' = AfterToken(up, returned[Uploader])
  /\ adminAlert' = NoAlert
  /\ UNCHANGED <<accessToken, lastRefresh, isDegradedMode, consecutiveFailures, now,
                 call, failsSinceReset, everCached, returned>>
  /\ UNCHANGED <<i, retryCount, dropboxSuccess, backoffDelay, attempts, delays,
                 results, order, twin, other, withRetry, lastCall>>
  /\ UNCHANGED <<pc, vvars>>

\* `await file.download()`: the file is read from the bucket, or the read
\* fails and the call throws.
UploadDownload ==
  /\ up.pc = "download"
  /\ \E ok \in BOOLEAN :
       up' = IF ok THEN [up EXCEPT !.pc = "fetch", !.reads = up.reads + 1]
             ELSE [up EXCEPT !.pc = "idle", !.reads = up.reads + 1, !.result = "threw"]
  /\ adminAlert' = NoAlert
  /\ UNCHANGED <<accessToken, lastRefresh, isDegradedMode, consecutiveFailures, now,
                 call, failsSinceReset, everCached, returned>>
  /\ UNCHANGED <<i, retryCount, dropboxSuccess, backoffDelay, attempts, delays,
                 results, order, twin, other, withRetry, lastCall>>
  /\ UNCHANGED <<pc, vvars>>

\* `await fetch('https://content.dropboxapi.com/2/files/upload', ...)`: the
\* request is sent; the call returns the answer's JSON or throws.
UploadFetch ==
  /\ up.pc = "fetch"
  /\ \E ok \in BOOLEAN :
       up' = [up EXCEPT !.pc = "idle", !.requests = up.requests + 1,
                        !.result = IF ok THEN "uploaded" ELSE "threw"]
  /\ adminAlert' = NoAlert
  /\ UNCHANGED <<accessToken, lastRefresh, isDegradedMode, consecutiveFailures, now,
                 call, failsSinceReset, everCached, returned>>
  /\ UNCHANGED <<i, retryCount, dropboxSuccess, backoffDelay, attempts, delays,
                 results, order, twin, other, withRetry, lastCall>>
  /\ UNCHANGED <<pc, vvars>>

\* ------------------------------------------ uploadToDropboxWithRetry
NoError == [message |-> <<>>, isRateLimit |-> FALSE, retryAfter |-> 0]

NoRetryCall ==
  [pc |-> "idle", maxRetries |-> 0, attempt |-> 0, calls |-> 0,
   error |-> NoError, delay |-> 0, waits |-> <<>>]

\* What a call of uploadToDropboxFromFirebase made by the helper meets: the
\* answers of the upload loop, and a rate-limited response whose retry_after
\* is -1.
RetryAnswers ==
  Answers \cup
  { [kind |-> "fail", json |-> TRUE, text |-> <<"error_summary", TooMany>>,
     summary |-> <<TooMany>>, retry_after |-> -1] }

\* A delay that takes the suggested retry time as it comes.
RetryDelayWithoutFloor(error, attempt) ==
  IF error.isRateLimit /\ error.retryAfter # 0
    THEN error.retryAfter
    ELSE Min(2000 * Pow2(attempt - 1), 10000)

\* The delay before the next attempt: `error.isRateLimit && error.retryAfter`
\* picks Math.max(error.retryAfter, 1000), anything else the exponential
\* backoff capped at 10 s.
RetryDelay(error, attempt) ==
  IF error.isRateLimit /\ error.retryAfter # 0
    THEN Max(error.retryAfter, 1000)
    ELSE Min(2000 * Pow2(attempt - 1), 10000)

\* for (let attempt = 1; attempt <= maxRetries; attempt++)
RetryLoopGuard(attempt, max) == attempt <= max

\* uploadToDropboxWithRetry(filePath, dropboxPath, maxRetries) is called; a
\* loop that takes no turn resolves with undefined.
UploadToDropboxWithRetry ==
  /\ withRetry = NoRetryCall
  /\ lastCall = NoCall
  /\ \E max \in 0..MaxRetriesArg :
       withRetry' = [withRetry EXCEPT
                       !.pc = IF RetryLoopGuard(1, max) THEN "try" ELSE "returned",
                       !.maxRetries = max, !.attempt = 1]
  /\ UNCHANGED <<i, retryCount, dropboxSuccess, backoffDelay, attempts, delays,
                 results, order, twin, other, up, lastCall>>
  /\ UNCHANGED <<pc, vvars, cvars>>

\* One turn of the loop: the call returns, or it throws and the catch block
\* chooses the delay and starts the timer, or rethrows on the last attempt.
RetryAttempt ==
  /\ withRetry.pc = "try"
  /\ \E cred \in Creds, answer \in RetryAnswers :
       LET result == UploadToDropboxFromFirebase(cred, answer)
           error == [message |-> result.message, isRateLimit |-> result.isRateLimit,
                     retryAfter |-> result.retryAfter]
           called == [withRetry EXCEPT !.calls = withRetry.calls + 1]
       IN
       IF result.returned
         THEN withRetry' = [called EXCEPT !.pc = "returned"]
       ELSE IF withRetry.attempt < withRetry.maxRetries
         THEN withRetry' = [called EXCEPT !.pc = "wait", !.error = error,
                                          !.delay = RetryDelay(error, withRetry.attempt)]
       ELSE withRetry' = [called EXCEPT !.pc = "threw", !.error = error]
  /\ UNCHANGED <<i, retryCount, dropboxSuccess, backoffDelay, attempts, delays,
                 results, order, twin, other, up, lastCall>>
  /\ UNCHANGED <<pc, vvars, cvars>>

\* The timer of the delay fires and the loop goes to its next turn.
RetryDelayElapsed ==
  /\ withRetry.pc = "wait"
  /\ withRetry' = [withRetry EXCEPT
                     !.pc = IF RetryLoopGuard(withRetry.attempt + 1, withRetry.maxRetries)
                              THEN "try" ELSE "returned",
                     !.attempt = withRetry.attempt + 1,
                     !.waits = Append(withRetry.waits, withRetry.delay)]
  /\ UNCHANGED <<i, retryCount, dropboxSuccess, backoffDelay, attempts, delays,
                 results, order, twin, other, up, lastCall>>
  /\ UNCHANGED <<pc, vvars, cvars>>

\* ------------------------------------------------------------ specifications
\* The remaining counters a client reports: photosTaken from -1 to MaxItems.
PhotoCounts == (photoCapacity - MaxItems)..(photoCapacity + 1)

AlbumInputs == {0, 2}

VerifierInit ==
  /\ address \in Addresses
  /\ photoCount \in PhotoCounts
  /\ currentAlbumNumber \in AlbumInputs
  /\ ack = "success"
  /\ derived = <<>>
  /\ pc = "start"
  /\ folderPrefix = CanonicalPrefix
  /\ files = <<>>
  /\ totalPhotoCount = 0
  /\ waitMinutes = 0
  /\ cands = <<>>
  /\ sleeps = 0
  /\ firstCount = -1
  /\ bestCount = 0
  /\ canonHit = -1
  /\ seen0 = <<>>
  /\ unexaminedMore = 0
  /\ alerts = <<>>

DispatcherIdle ==
  /\ i = 0
  /\ retryCount = 0
  /\ dropboxSuccess = FALSE
  /\ backoffDelay = 0
  /\ attempts = 0
  /\ delays = <<>>
  /\ results = <<>>
  /\ order = <<>>
  /\ twin = NoTwin
  /\ other = NoOther
  /\ up = NoUpload
  /\ withRetry = NoRetryCall
  /\ lastCall = NoCall

\* The token manager as constructed, the process just started: Date.now() is
\* more than refreshTimeout past lastRefresh = 0.
TokenManagerInit ==
  /\ accessToken \in {NoToken, EnvToken}
  /\ lastRefresh = 0
  /\ isDegradedMode = FALSE
  /\ consecutiveFailures = 0
  /\ now = refreshTimeout + 1
  /\ call = [c \in Callers |-> Idle]
  /\ returned = [c \in Callers |-> NothingReturned]
  /\ adminAlert = NoAlert
  /\ failsSinceReset = 0
  /\ everCached = (accessToken # NoToken)

\* The token manager with DROPBOX_TOKEN set and nobody calling it.
TokenManagerIdle ==
  /\ accessToken = EnvToken
  /\ lastRefresh = 0
  /\ isDegradedMode = FALSE
  /\ consecutiveFailures = 0
  /\ now = refreshTimeout + 1
  /\ call = [c \in Callers |-> Idle]
  /\ returned = [c \in Callers |-> NothingReturned]
  /\ adminAlert = NoAlert
  /\ failsSinceReset = 0
  /\ everCached = TRUE

\* The background task of one completion signal, from its first listing to
\* the end of its uploads.
Init == VerifierInit /\ DispatcherIdle /\ TokenManagerIdle

Next ==
  \/ ListCanonical
  \/ LegacyInitial
  \/ Poll
  \/ LegacyInLoop
  \/ FinalVerification
  \/ StartUploads
  \/ UploadAttempt
  \/ BackoffElapsed
  \/ NextFile

Spec == Init /\ [][Next]_vars

\* The verifier alone, up to its verdict.
VerifierNext ==
  \/ ListCanonical
  \/ LegacyInitial
  \/ Poll
  \/ LegacyInLoop
  \/ FinalVerification

SpecVerifier == Init /\ [][VerifierNext]_vars

\* The request handler and the verification it starts, for well-formed and
\* malformed bodies.
TriggerInit ==
  /\ address \in {<<"1", "_", "A">>, Missing}
  /\ photoCount \in {photoCapacity - 2, NaN}
  /\ currentAlbumNumber = 0
  /\ ack = "none"
  /\ derived = <<>>
  /\ pc = "received"
  /\ folderPrefix = CanonicalPrefix
  /\ files = <<>>
  /\ totalPhotoCount = 0
  /\ waitMinutes = 0
  /\ cands = <<>>
  /\ sleeps = 0
  /\ firstCount = -1
  /\ bestCount = 0
  /\ canonHit = -1
  /\ seen0 = <<>>
  /\ unexaminedMore = 0
  /\ alerts = <<>>
  /\ DispatcherIdle
  /\ TokenManagerIdle

TriggerNext ==
  \/ NotifyPrint
  \/ BackgroundError
  \/ ListCanonical
  \/ LegacyInitial
  \/ Poll
  \/ LegacyInLoop
  \/ FinalVerification

SpecTrigger == TriggerInit /\ [][TriggerNext]_vars

\* The characters of a raw address: letters of both cases, a digit, the
\* underscore, and characters the derivation rewrites.
AddressChars == {"1", "A", "e", "_", "-", " ", "/"}

RawAddresses == UNION {[1..n -> AddressChars] : n \in 0..MaxLen}

\* The key derivation alone, over every raw address up to MaxLen characters.
KeyInit ==
  /\ address \in RawAddresses
  /\ photoCount = photoCapacity
  /\ currentAlbumNumber = 0
  /\ ack = "none"
  /\ derived = <<>>
  /\ pc = "off"
  /\ folderPrefix = CanonicalPrefix
  /\ files = <<>>
  /\ totalPhotoCount = 0
  /\ waitMinutes = 0
  /\ cands = <<>>
  /\ sleeps = 0
  /\ firstCount = -1
  /\ bestCount = 0
  /\ canonHit = -1
  /\ seen0 = <<>>
  /\ unexaminedMore = 0
  /\ alerts = <<>>
  /\ DispatcherIdle
  /\ TokenManagerIdle

KeyNext ==
  \/ DeriveKey
  \/ RederiveKey

SpecKey == KeyInit /\ [][KeyNext]_vars

\* The upload loop alone, over any file list a verdict can hand it.
DispatcherInit ==
  /\ address = <<"1", "_", "A">>
  /\ currentAlbumNumber \in AlbumInputs
  /\ \E n \in 0..MaxItems, folder \in {folderName, <<"1", "_", "S", "_", "A">>} :
       /\ folder # folderName => n >= 1
       /\ folderPrefix = Prefix(folder, albumNumber)
       /\ files = PhotoFiles(Listing(folderPrefix, n, FALSE))
       /\ photoCount = photoCapacity - n
       /\ totalPhotoCount = n
       /\ firstCount = IF folder = folderName THEN n ELSE 0
       /\ bestCount = n
       /\ canonHit = IF folder = folderName THEN 0 ELSE -1
       /\ seen0 = IF folder = folderName THEN <<>> ELSE <<folderPrefix, files>>
  /\ unexaminedMore = 0
  /\ pc = "dispatch"
  /\ ack = "success"
  /\ derived = <<>>
  /\ waitMinutes = 0
  /\ cands = <<>>
  /\ sleeps = 0
  /\ alerts = <<>>
  /\ DispatcherIdle
  /\ TokenManagerIdle

DispatcherNext ==
  \/ StartUploads
  \/ UploadAttempt
  \/ BackoffElapsed
  \/ NextFile

SpecDispatcher == DispatcherInit /\ [][DispatcherNext]_vars

\* The most files a session holds when two signals of it are followed.
MaxSessionItems == 2

\* Two completion signals of one session, both verified COMPLETE over the
\* same files: the two upload loops side by side.
SessionsInit == DispatcherInit /\ Len(files) \in 1..MaxSessionItems

SessionsNext ==
  \/ StartUploads
  \/ UploadAttempt
  \/ BackoffElapsed
  \/ NextFile
  \/ TwinStart
  \/ TwinCall
  \/ TwinAnswer
  \/ TwinBackoffElapsed

SpecSessions == SessionsInit /\ [][SessionsNext]_vars

\* The verifiers of two sessions side by side: this session's ("1_A", which
\* has legacy folders) and another's, whose signal came first.
PairInit ==
  /\ address = <<"1", "_", "A">>
  /\ photoCount = photoCapacity - 2
  /\ currentAlbumNumber = 0
  /\ ack = "success"
  /\ derived = <<>>
  /\ pc = "start"
  /\ folderPrefix = CanonicalPrefix
  /\ files = <<>>
  /\ totalPhotoCount = 0
  /\ waitMinutes = 0
  /\ cands = <<>>
  /\ sleeps = 0
  /\ firstCount = -1
  /\ bestCount = 0
  /\ canonHit = -1
  /\ seen0 = <<>>
  /\ unexaminedMore = 0
  /\ alerts = <<>>
  /\ i = 0
  /\ retryCount = 0
  /\ dropboxSuccess = FALSE
  /\ backoffDelay = 0
  /\ attempts = 0
  /\ delays = <<>>
  /\ results = <<>>
  /\ order = <<>>
  /\ twin = NoTwin
  /\ other = OtherStart
  /\ up = NoUpload
  /\ withRetry = NoRetryCall
  /\ lastCall = NoCall
  /\ TokenManagerIdle

PairNext ==
  \/ ListCanonical
  \/ LegacyInitial
  \/ Poll
  \/ LegacyInLoop
  \/ FinalVerification
  \/ OtherListCanonical
  \/ OtherPoll
  \/ OtherFinalVerification

SpecPair == PairInit /\ [][PairNext]_vars

\* The token manager alone, under its concurrent callers; no background task
\* of /notify-print is modelled beyond its calls.
PipelineOff ==
  /\ address = <<"1", "_", "A">>
  /\ photoCount = photoCapacity
  /\ currentAlbumNumber = 0
  /\ ack = "none"
  /\ derived = <<>>
  /\ pc = "off"
  /\ folderPrefix = CanonicalPrefix
  /\ files = <<>>
  /\ totalPhotoCount = 0
  /\ waitMinutes = 0
  /\ cands = <<>>
  /\ sleeps = 0
  /\ firstCount = -1
  /\ bestCount = 0
  /\ canonHit = -1
  /\ seen0 = <<>>
  /\ unexaminedMore = 0
  /\ alerts = <<>>
  /\ DispatcherIdle

CredentialInit == TokenManagerInit /\ PipelineOff

CredentialNext ==
  \/ ScheduledRefresh
  \/ \E c \in Uploads : GetValidAccessToken(c)
  \/ \E c \in Callers : RefreshAnswer(c)
  \/ \E c \in Callers : RefreshRetry(c)
  \/ \E c \in Callers : AlertDone(c)
  \/ ExitDegradedMode
  \/ Tick

SpecCredential == CredentialInit /\ [][CredentialNext]_vars

\* One background task's upload calls, step by step, beside the scheduled
\* refreshes of the token manager.
UploadCallNext ==
  \/ UploadCall
  \/ UploadTokenReturned
  \/ UploadDownload
  \/ UploadFetch
  \/ ScheduledRefresh
  \/ \E c \in Callers : RefreshAnswer(c)
  \/ \E c \in Callers : RefreshRetry(c)
  \/ \E c \in Callers : AlertDone(c)
  \/ ExitDegradedMode
  \/ Tick

SpecUploadCall == CredentialInit /\ [][UploadCallNext]_vars

\* One call of the exported helper, on its own: nothing of the pipeline runs.
WithRetryInit ==
  /\ PipelineOff
  /\ DispatcherIdle
  /\ TokenManagerIdle

WithRetryNext ==
  \/ UploadToDropboxWithRetry
  \/ RetryAttempt
  \/ RetryDelayElapsed

SpecWithRetry == WithRetryInit /\ [][WithRetryNext]_vars

\* ------------------------------------------- the whole pipeline of one signal

\* The statement of line 241 throws the TypeError of address.replace on an
\* absent address; the catch block of the background task logs it.
AddressTypeError ==
  /\ pc = "start"
  /\ address = Missing
  /\ pc' = "failed"
  /\ UNCHANGED <<vvars, dvars, cvars>>

PipelineInit ==
  /\ address \in {<<"1", "_", "A">>, Missing}
  /\ photoCount = photoCapacity - 1
  /\ currentAlbumNumber = 0
  /\ ack = "none"
  /\ derived = <<>>
  /\ pc = "received"
  /\ folderPrefix = CanonicalPrefix
  /\ files = <<>>
  /\ totalPhotoCount = 0
  /\ waitMinutes = 0
  /\ cands = <<>>
  /\ sleeps = 0
  /\ firstCount = -1
  /\ bestCount = 0
  /\ canonHit = -1
  /\ seen0 = <<>>
  /\ unexaminedMore = 0
  /\ alerts = <<>>
  /\ DispatcherIdle
  /\ TokenManagerIdle

PipelineNext ==
  \/ NotifyPrint
  \/ AddressTypeError
  \/ ListCanonical
  \/ LegacyInitial
  \/ Poll
  \/ LegacyInLoop
  \/ FinalVerification
  \/ StartUploads
  \/ UploadAttempt
  \/ BackoffElapsed
  \/ NextFile

\* Every listing and every upload request returns, and the event loop runs
\* every continuation that is ready: a step that stays possible is taken.
SpecPipeline == PipelineInit /\ [][PipelineNext]_vars /\ WF_vars(PipelineNext)

\* The end of the wait loop on its own: the 60th poll has listed any number
\* of files, for a client that reported 9 or 8 photos left, or 190 fewer
\* than none.
AlertInit ==
  /\ address = <<"1", "_", "A">>
  /\ photoCount \in {photoCapacity - 1, photoCapacity - 2, photoCapacity - (MaxFound + 1)}
  /\ currentAlbumNumber = 0
  /\ ack = "success"
  /\ derived = <<>>
  /\ pc = "loop"
  /\ folderPrefix = CanonicalPrefix
  /\ \E n \in 0..MaxFound :
       /\ files = PhotoFiles(Listing(CanonicalPrefix, n, FALSE))
       /\ totalPhotoCount = n
       /\ bestCount = n
       /\ canonHit = IF AtLeast(n, photosTaken) THEN maxWaitMinutes ELSE -1
  /\ waitMinutes = maxWaitMinutes
  /\ cands = <<>>
  /\ sleeps = maxWaitMinutes
  /\ firstCount = 0
  /\ seen0 = <<>>
  /\ unexaminedMore = 0
  /\ alerts = <<>>
  /\ DispatcherIdle
  /\ TokenManagerIdle

AlertNext ==
  \/ FinalVerification

SpecAlert == AlertInit /\ [][AlertNext]_vars

\* ------------------------------------------------------------ properties
\* The verdicts of the verifier.  COMPLETE: the files go to the upload loop.
\* INCOMPLETE: the manual review alert is sent and the task returns.
Complete == pc \in {"dispatch", "attempt", "backoff", "fileEnd", "done"}

Incomplete == pc = "incomplete"

\* The photo files of the first listing of the canonical prefix.
FirstListing == PhotoFiles(Listing(CanonicalPrefix, firstCount, FALSE))

\* C1: once the first listing of the canonical prefix holds at least
\* photosTaken files, the verifier takes no sleep and no poll, does not end
\* INCOMPLETE, and at COMPLETE the files handed to the upload loop are exactly
\* those of that first listing.
C1_FirstListingSuffices ==
  (firstCount >= 0 /\ firstCount >= photosTaken) =>
    /\ sleeps = 0
    /\ waitMinutes = 0
    /\ ~Incomplete
    /\ Complete => (folderPrefix = CanonicalPrefix /\ files = FirstListing)

\* C2: when a listing of the canonical prefix first holds at least photosTaken
\* files at poll k >= 1, the verifier leaves the loop at that poll: k sleeps
\* and k polls are counted for good, k is within the 60 polls, the canonical
\* prefix is the active one with a sufficient count, and the only verdict
\* reached is COMPLETE.
C2_CompleteAtFirstSufficientPoll ==
  canonHit >= 1 =>
    /\ waitMinutes = canonHit
    /\ sleeps = canonHit
    /\ canonHit <= maxWaitMinutes
    /\ folderPrefix = CanonicalPrefix
    /\ totalPhotoCount >= photosTaken
    /\ Len(files) = totalPhotoCount
    /\ pc = "final" \/ Complete

\* The scenario of C2: 3 files at the first listing, 5 expected, 5 listed at
\* the third poll.
C2_Witness ==
  /\ pc = "dispatch"
  /\ photosTaken = 5
  /\ firstCount = 3
  /\ canonHit = 3
  /\ waitMinutes = 3
  /\ Len(files) = 5

\* C3: the verifier sleeps once per poll and polls at most 60 times; it ends
\* INCOMPLETE only with all 60 polls made; and when no listing ever held
\* photosTaken files it does not leave the loop early, and once it left the
\* loop its verdict is INCOMPLETE after exactly 60 polls.
C3_IncompleteAfterExactlyAllPolls ==
  /\ sleeps = waitMinutes
  /\ waitMinutes <= maxWaitMinutes
  /\ Incomplete => waitMinutes = maxWaitMinutes
  /\ bestCount < photosTaken =>
       /\ pc # "final"
       /\ ~Complete
       /\ pc = "loop" /\ waitMinutes < maxWaitMinutes => ENABLED Poll

\* 60 polls were made, none returned photosTaken files, the verdict is INCOMPLETE.
C3_Witness ==
  /\ Incomplete
  /\ sleeps = maxWaitMinutes
  /\ bestCount < photosTaken
  /\ bestCount >= 1

\* C4: at an INCOMPLETE verdict the count and the files the verifier holds,
\* and the count its alert carries, are those of the largest listing any call
\* returned.
C4_BestListingCarried ==
  Incomplete =>
    /\ totalPhotoCount = bestCount
    /\ Len(files) = bestCount
    /\ alerts = << <<bestCount, photosTaken>> >>

C6_AttemptsAndDelays ==
  /\ dropboxSuccess =>
       /\ attempts = retryCount + 1
       /\ Len(delays) = retryCount
       /\ attempts <= maxRetries
       /\ pc \in {"fileEnd", "done"}
  /\ (pc = "done" /\ Len(results) >= 1) => results[Len(results)] = dropboxSuccess

\* Two failures, then a success at the third attempt, after two delays.
C6_Witness ==
  /\ pc = "done"
  /\ dropboxSuccess
  /\ attempts = 3
  /\ Len(delays) = 2
  /\ results[Len(results)] = TRUE

\* C7: files are first attempted in listing order; a file's loop ends without
\* success only after 3 attempts; the loop moves on after every file, failed
\* or not, and at the end of the batch every file has a result and was
\* attempted.
C7_FailureDoesNotAbortBatch ==
  /\ order = [k \in 1..Len(order) |-> k]
  /\ Len(results) <= Len(order)
  /\ Len(order) <= Len(files)
  /\ (pc = "fileEnd" /\ ~dropboxSuccess) => attempts = maxRetries
  /\ \A k \in 1..Len(results) : (~results[k] /\ k < Len(files)) => i > k
  /\ pc = "done" => (Len(results) = Len(files) /\ Len(order) = Len(files))

\* The first file failed three times, and the files after it were attempted.
C7_Witness ==
  /\ pc = "done"
  /\ Len(files) >= 3
  /\ ~results[1]
  /\ results[2]
  /\ ~results[Len(files)]
  /\ Len(order) = Len(files)

\* C8: after an attempt failed with the rate-limit error, the delay taken is
\* at least the retryAfter the error carries.
C8_RateLimitDelayHonoured ==
  \A k \in 1..Len(delays) :
    delays[k].isRateLimit => delays[k].waited >= delays[k].retryAfter

\* No refreshAccessToken call is inside handleTokenRefreshFailure.
NoFailurePending == \A c \in Callers : call[c].pc # "alert"

\* C9: after 3 refreshAccessToken calls failed with no success and no reset
\* between them, shouldAttemptDropboxOperation() is false and
\* getValidAccessToken() starts no refresh and returns the cached token, which
\* is a token if one was ever cached.
C9_DegradedAfterThreeFailures ==
  (failsSinceReset >= maxConsecutiveFailures /\ NoFailurePending) =>
    /\ ~ShouldAttemptDropboxOperation
    /\ ~GetValidAccessTokenPlan.refresh
    /\ GetValidAccessTokenPlan.token = accessToken
    /\ everCached => GetValidAccessTokenPlan.token # NoToken

\* Three calls failed, the cached token is stale, nothing is in flight.
C9_Witness ==
  /\ failsSinceReset = maxConsecutiveFailures
  /\ \A c \in Callers : call[c] = Idle
  /\ isDegradedMode
  /\ NeedsRefresh
  /\ accessToken[1] = "issued"

\* C10: isDegradedMode implies consecutiveFailures >= maxConsecutiveFailures.
C10_DegradedImpliesThreshold ==
  isDegradedMode => consecutiveFailures >= maxConsecutiveFailures

\* Degraded mode, entered while another refresh call is in flight.
C10_Witness ==
  /\ isDegradedMode
  /\ \E c \in Callers : call[c].pc = "fetch"
  /\ \E c \in Callers : call[c].pc = "alert"

\* A step in which a refreshAccessToken call ends with a token issued.
RefreshSuccessStep ==
  \E c \in Callers :
    /\ call[c].pc = "fetch"
    /\ call'[c] = Idle
    /\ accessToken' = <<"issued", now>>
    /\ lastRefresh' = now

\* C11: every step that changes the cached accessToken or lastRefresh is the
\* end of a successful refresh; in particular a failed refresh (a step that
\* counts a failure, or the one that sets isDegradedMode) and
\* exitDegradedMode leave both as they were, and no step takes a cached token
\* away.
C11_OnlySuccessChangesToken ==
  [][ /\ (accessToken' # accessToken \/ lastRefresh' # lastRefresh) => RefreshSuccessStep
      /\ consecutiveFailures' > consecutiveFailures =>
            (accessToken' = accessToken /\ lastRefresh' = lastRefresh)
      /\ (isDegradedMode' /\ ~isDegradedMode) =>
            (accessToken' = accessToken /\ lastRefresh' = lastRefresh)
      /\ accessToken # NoToken => accessToken' # NoToken ]_vars

\* Degraded mode was entered after a token had been issued: the token and
\* the time of its refresh are still there.
C11_Witness ==
  /\ isDegradedMode
  /\ accessToken[1] = "issued"
  /\ lastRefresh = accessToken[2]
  /\ now > lastRefresh
  /\ failsSinceReset >= maxConsecutiveFailures

\* The callers whose refreshAccessToken call has a request to the token
\* endpoint in flight.
RefreshesInFlight == {c \in Callers : call[c].pc = "fetch"}

\* C12: at most one refresh request to the token endpoint is in flight.
C12_SingleRefreshInFlight == Cardinality(RefreshesInFlight) <= 1

\* C13: the acknowledgment is sent before the background task takes any
\* step, and once sent it is never changed, whatever the task comes to (an
\* INCOMPLETE verdict, a COMPLETE one, an exception).
C13_AckBeforeBackground ==
  /\ [](pc # "received" => ack = "success")
  /\ [][ack # "none" => ack' = ack]_vars

\* The verification ended INCOMPLETE, the client has its acknowledgment.
C13_Witness ==
  /\ Incomplete
  /\ ack = "success"
  /\ derived = <<>>
  /\ alerts # <<>>

\* The body lacks the address, or its photoCount is no number.
Malformed == address = Missing \/ photoCount = NaN

\* C14: for a malformed body no success acknowledgment is sent and the
\* background task takes no step.
C14_MalformedRejected ==
  Malformed => (ack # "success" /\ pc \in {"received", "start"})

\* C15: no call of uploadToDropboxFromFirebase is made for a session while
\* another call for that session is pending.
C15_OneUploadInFlightPerSession ==
  [][attempts' = attempts + 1 => twin.pc # "uploading"]_vars

\* C16: all keys derived from one raw address, from the address itself or
\* from a key derived before, are the same key, and the key holds nothing
\* but letters, digits and underscores.
C16_KeyIdempotent ==
  /\ \A j, k \in 1..Len(derived) : derived[j] = derived[k]
  /\ \A k \in 1..Len(derived) : \A n \in 1..Len(derived[k]) :
       derived[k][n] \in AlnumChars \cup {"_"}

\* An address with a character the derivation rewrites and an underscore of
\* its own, derived three times.
C16_Witness ==
  /\ Len(derived) = MaxDerivations
  /\ derived[1] # address
  /\ \E n \in 1..Len(address) : address[n] = "_"
  /\ \E n \in 1..Len(address) : address[n] = "-"

\* C17: the manual review alert is sent exactly once at an INCOMPLETE verdict
\* and not at all otherwise, and it carries the count found at the final
\* verification and the count expected.
C17_AlertOncePerIncomplete ==
  /\ Len(alerts) = IF Incomplete THEN 1 ELSE 0
  /\ Incomplete =>
       /\ alerts[1] = <<totalPhotoCount, photosTaken>>
       /\ totalPhotoCount = Len(files)
       /\ totalPhotoCount < photosTaken

\* An INCOMPLETE verdict with some files found, and its alert.
C17_Witness ==
  /\ Incomplete
  /\ Len(alerts) = 1
  /\ alerts[1][1] >= 1
  /\ alerts[1][2] = photosTaken

\* C18: degraded mode is not left by the success of a refresh that the timer
\* or a getValidAccessToken call started (the only refreshes there are): it
\* is left by exitDegradedMode alone.
C18_DegradedUntilReset ==
  [][(isDegradedMode /\ ~isDegradedMode') => ~RefreshSuccessStep]_vars

\* C19: a refreshAccessToken call whose last attempt failed counts one
\* failure, and when it ends it has thrown nothing: it gives back the cached
\* token, or null when there is none, with degraded mode set once the
\* failures counted reach the threshold; and no call of the token manager
\* ever throws.
C19_RefreshFailureReturns ==
  /\ [](\A c \in Callers : returned[c] # Threw)
  /\ [][\A c \in Callers :
          /\ (call[c].pc = "fetch" /\ call'[c].pc = "alert") =>
                consecutiveFailures' = consecutiveFailures + 1
          /\ (call[c].pc = "alert" /\ call'[c] = Idle) =>
                /\ returned'[c] = accessToken
                /\ accessToken' = accessToken
                /\ consecutiveFailures >= maxConsecutiveFailures => isDegradedMode']_vars

\* An upload's refresh failed with no token cached: it got null, the failure
\* is counted.
C19_Witness ==
  /\ \E c \in Uploads : call[c] = Idle /\ returned[c] = NoToken
  /\ accessToken = NoToken
  /\ consecutiveFailures >= 1

\* C20: the count the verifier compares against is never negative, whatever
\* remaining counter the signal reports: a run whose reported remaining
\* exceeds the capacity is not given the COMPLETE verdict against a negative
\* count.
C20_ExpectedCountNonNegative == Complete => photosTaken >= 0

\* The folders this session's verifier lists: its canonical folder and the
\* candidates of its legacy search.
OwnFolders ==
  {folderName} \cup {PossibleFolders(addressParts)[k] : k \in 1..Len(PossibleFolders(addressParts))}

\* C22: with another session's verifier polling beside it, this session's
\* verifier reaches its verdict from its own listings alone: no step of the
\* other verifier changes anything of this one (and none of this one changes
\* the other), and at the verdict the files are those of the last listing
\* adopted, of a prefix of this session, counted by totalPhotoCount, COMPLETE
\* exactly when they are at least photosTaken.
C22_SessionsIndependent ==
  /\ [](Complete \/ Incomplete =>
          /\ folderPrefix.folder \in OwnFolders
          /\ \A k \in 1..Len(files) : files[k].folder = folderPrefix.folder
          /\ totalPhotoCount = Len(files)
          /\ Complete <=> Len(files) >= photosTaken)
  /\ [][/\ other' # other => UNCHANGED <<pc, vvars>>
        /\ <<pc, vvars>>' # <<pc, vvars>> => other' = other]_vars

\* This session got its verdict after a sleep of its own while the other
\* session's verifier, started first, has polled and is still short.
C22_Witness ==
  /\ Complete
  /\ sleeps >= 1
  /\ other.pc = "loop"
  /\ other.waitMinutes >= 1
  /\ Less(other.totalPhotoCount, otherPhotosTaken)

C24_BestCandidateAdopted == unexaminedMore = 0

\* C25: when the search of a poll ends and a candidate folder holds at least
\* photosTaken files at that poll (the folder listed last, or one the search
\* left unexamined) while the active prefix was short, that poll ends the
\* wait: the verifier holds at least photosTaken files and goes to its
\* COMPLETE verdict with no further sleep.
C25_LateCandidateCompletes ==
  [][(/\ pc = "legacy"
      /\ pc' # "legacy"
      /\ Less(totalPhotoCount, photosTaken)
      /\ AtLeast(Max(totalPhotoCount', unexaminedMore'), photosTaken)) =>
       /\ pc' = "final"
       /\ AtLeast(totalPhotoCount', photosTaken)]_vars

\* C26: whatever the calls of a file meet, the file gets at most 3 upload
\* attempts and at most 2 retry delays, no attempt is made once the file has
\* succeeded, and after the third failure the loop of the file is over with
\* no delay taken for it.
C26_BoundedAttempts ==
  /\ [](/\ attempts <= maxRetries
        /\ Len(delays) <= maxRetries - 1
        /\ (retryCount = maxRetries /\ ~dropboxSuccess) =>
              /\ pc \in {"fileEnd", "done"}
              /\ attempts = maxRetries
              /\ Len(delays) = maxRetries - 1)
  /\ [][attempts' = attempts + 1 => (~dropboxSuccess /\ retryCount < maxRetries)]_vars

\* A file failed three times: its loop is over after two delays.
C26_Witness ==
  /\ pc = "fileEnd"
  /\ ~dropboxSuccess
  /\ retryCount = maxRetries
  /\ attempts = maxRetries
  /\ Len(delays) = maxRetries - 1

\* C27: the delay taken after the k-th failure of a file, when the upload
\* loop does not take the failure for a rate limit, is
\* min(2000 * 2^(k-1), 8000) ms; these delays never decrease from one
\* failure to a later one and never exceed 8000 ms.
C27_ExponentialBackoff ==
  /\ \A k \in 1..Len(delays) :
       ~delays[k].tooMany =>
         /\ delays[k].waited = Min(2000 * 2^(k - 1), 8000)
         /\ delays[k].waited <= 8000
  /\ \A j, k \in 1..Len(delays) :
       (j < k /\ ~delays[j].tooMany /\ ~delays[k].tooMany) =>
         delays[j].waited <= delays[k].waited
  /\ pc = "backoff" => backoffDelay = delays[Len(delays)].waited

\* Two failures of a file that the loop did not take for rate limits: it
\* waited 2000 ms, then 4000 ms.
C27_Witness ==
  /\ Len(delays) = 2
  /\ ~delays[1].tooMany /\ delays[1].waited = 2000
  /\ ~delays[2].tooMany /\ delays[2].waited = 4000
  /\ pc = "backoff"

\* C28: an upload call made while the token manager is degraded ends at
\* once with the skipped result of degraded mode: it has read nothing from the
\* bucket, started no token refresh and sent no request to Dropbox, and the
\* step of the call leaves the token manager as it was.
C28_DegradedShortCircuit ==
  /\ [](up.degraded =>
          /\ up.pc = "idle"
          /\ up.result = "degraded_mode"
          /\ up.reads = 0
          /\ up.requests = 0
          /\ ~up.refreshed)
  /\ [][(isDegradedMode /\ up' # up /\ up.pc = "idle") =>
          /\ UNCHANGED <<accessToken, lastRefresh, isDegradedMode, consecutiveFailures,
                         call, returned>>
          /\ adminAlert' = NoAlert]_vars

\* An upload call was made in degraded mode, with a token in the cache.
C28_Witness ==
  /\ up.degraded
  /\ up.result = "degraded_mode"
  /\ isDegradedMode
  /\ accessToken # NoToken

\* C29: the degraded flag is set only at the end of a failure handling, a
\* step after that handling called alertAdmin; the handling calls it once, as
\* it begins, with the last error's message, the failure count just counted,
\* the time of the call and the time of the last refresh, and the flag is not
\* touched in that step; nothing else calls alertAdmin.
C29_AlertBeforeDegraded ==
  /\ [][\A c \in Callers :
          (call[c].pc = "fetch" /\ call'[c].pc = "alert") =>
             /\ adminAlert'.error \in RefreshErrors
             /\ adminAlert'.consecutiveFailures = consecutiveFailures'
             /\ adminAlert'.consecutiveFailures = consecutiveFailures + 1
             /\ adminAlert'.timestamp = now
             /\ adminAlert'.lastRefresh = lastRefresh
             /\ isDegradedMode' = isDegradedMode]_vars
  /\ [][(~isDegradedMode /\ isDegradedMode') =>
          \E c \in Callers : call[c].pc = "alert" /\ call'[c] = Idle]_vars
  /\ [][adminAlert' # NoAlert =>
          \E c \in Callers : call[c].pc = "fetch" /\ call'[c].pc = "alert"]_vars

\* The alert of the third failure in a row is out and the flag is not yet set.
C29_Witness ==
  /\ adminAlert.consecutiveFailures = maxConsecutiveFailures
  /\ adminAlert.error = "HTTP"
  /\ ~isDegradedMode
  /\ \E c \in Callers : call[c].pc = "alert"

\* C30: a successful refresh sets consecutiveFailures to 0; the step that
\* ends the handling of a failed refresh call leaves the manager degraded
\* exactly when 3 or more calls have failed since the last successful refresh
\* or reset; the manager becomes degraded in no other step, and is never
\* degraded with fewer than 3 failures since the last success or reset.
C30_DegradedAtThirdFailure ==
  /\ [](isDegradedMode => failsSinceReset >= maxConsecutiveFailures)
  /\ [][RefreshSuccessStep => (consecutiveFailures' = 0 /\ ~isDegradedMode')]_vars
  /\ [][\A c \in Callers :
          (call[c].pc = "alert" /\ call'[c] = Idle) =>
             (isDegradedMode' <=> failsSinceReset >= maxConsecutiveFailures)]_vars
  /\ [][(~isDegradedMode /\ isDegradedMode') =>
          /\ failsSinceReset >= maxConsecutiveFailures
          /\ \E c \in Callers : call[c].pc = "alert" /\ call'[c] = Idle]_vars

\* A refresh had succeeded; three calls failed after it and the manager is
\* degraded, every failure handling over.
C30_Witness ==
  /\ isDegradedMode
  /\ lastRefresh > 0
  /\ failsSinceReset = maxConsecutiveFailures
  /\ consecutiveFailures = maxConsecutiveFailures
  /\ NoFailurePending

\* C31: a getValidAccessToken() call of an upload starts a refresh exactly
\* when the manager is not degraded and the time since lastRefresh exceeds
\* refreshTimeout or no token is cached; otherwise it returns the cached
\* token, and either way the step changes nothing of the credential state.
C31_RefreshIffStale ==
  [][\A c \in Uploads :
       LET stale == now - lastRefresh > refreshTimeout \/ accessToken = NoToken
           called == /\ call[c].pc = "idle"
                     /\ \A d \in Callers \ {c} : call'[d] = call[d] /\ returned'[d] = returned[d]
                     /\ call'[c] # call[c] \/ returned'[c] # returned[c]
       IN
       called =>
         /\ call'[c].pc = "fetch" <=> (~isDegradedMode /\ stale)
         /\ call'[c].pc # "fetch" => (call'[c] = call[c] /\ returned'[c] = accessToken)
         /\ UNCHANGED <<accessToken, lastRefresh, isDegradedMode, consecutiveFailures>>]_vars

\* An upload's getValidAccessToken() started a refresh of an issued token
\* that had gone stale.
C31_Witness ==
  /\ \E c \in Uploads :
       /\ call[c] = [pc |-> "fetch", attempt |-> 1]
       /\ accessToken[1] = "issued"
       /\ now - lastRefresh > refreshTimeout
       /\ ~isDegradedMode

\* C32: every started pipeline eventually reaches a terminal state, the
\* INCOMPLETE verdict with its alert sent or the dispatch finished for all
\* items, when every listing and every upload request returns.
C32_PipelineTerminates ==
  <>((Incomplete /\ alerts # <<>>) \/ pc = "done")

\* The same for a signal whose body carries an address.
C32_TerminatesWithAddress ==
  address # Missing => C32_PipelineTerminates

\* C33: in uploadToDropboxWithRetry, the wait after a failed attempt that is
\* not the last is max(d, 1000) ms for a rate-limit error carrying
\* retryAfter = d ms and min(2000 * 2^(attempt-1), 10000) ms for any other
\* failure; after maxRetries failed attempts the last error is rethrown
\* with no wait.
C33_HelperDelays ==
  /\ withRetry.pc = "wait" =>
       /\ withRetry.attempt < withRetry.maxRetries
       /\ withRetry.calls = withRetry.attempt
       /\ withRetry.delay =
            IF withRetry.error.isRateLimit
              THEN Max(withRetry.error.retryAfter, 1000)
              ELSE Min(2000 * (2 ^ (withRetry.attempt - 1)), 10000)
  /\ withRetry.pc = "threw" =>
       /\ withRetry.calls = withRetry.maxRetries
       /\ Len(withRetry.waits) = withRetry.maxRetries - 1

\* The helper rethrows the error of its last attempt, having waited the floor
\* of one second after a rate-limit error and the capped backoff of 10 s
\* after another failure.
C33_Witness ==
  /\ withRetry.pc = "threw"
  /\ withRetry.maxRetries >= 3
  /\ \E k \in 1..Len(withRetry.waits) : withRetry.waits[k] = 1000
  /\ \E k \in 1..Len(withRetry.waits) : withRetry.waits[k] = 10000

\* C34: a call of the upload loop that finds the token manager degraded, or
\* is handed no token, resolves with a skipped result and sends nothing to
\* Dropbox; the loop counts it as a success, and when it is the item's first
\* attempt the item has had exactly one call, no retry and no retry delay.
C34_SkippedCountsAsSuccess ==
  lastCall.cred \in {"degraded", "no_token"} =>
    /\ lastCall.skipped
    /\ lastCall.requests = 0
    /\ pc = "fileEnd"
    /\ dropboxSuccess
    /\ backoffDelay = 0
    /\ retryCount = 0 => (attempts = 1 /\ delays = <<>>)

\* The first call for the second item was skipped for want of a token.
C34_Witness ==
  /\ lastCall.cred = "no_token"
  /\ lastCall.skipped
  /\ lastCall.requests = 0
  /\ i = 2
  /\ attempts = 1
  /\ pc = "fileEnd"

\* C35: no upload is attempted before the verification verdict is reached
\* and none after an INCOMPLETE verdict; the upload loop runs only on a
\* COMPLETE verdict, over exactly the files of the listing the verifier
\* adopted last.
C35_DispatchOnlyOnComplete ==
  /\ ~Complete =>
       /\ i = 0
       /\ attempts = 0
       /\ order = <<>>
       /\ results = <<>>
       /\ lastCall = NoCall
  /\ Complete =>
       /\ AtLeast(totalPhotoCount, photosTaken)
       /\ alerts = <<>>
       /\ Len(files) = totalPhotoCount
       /\ files = PhotoFiles(Listing(folderPrefix, totalPhotoCount, FALSE))
       /\ i <= Len(files)
  /\ pc = "done" =>
       /\ order = [k \in 1..Len(files) |-> k]
       /\ Len(results) = Len(files)

\* The uploads have run over the two files of a legacy folder adopted at a
\* poll of the wait loop.
C35_Witness ==
  /\ pc = "done"
  /\ sleeps >= 1
  /\ folderPrefix # CanonicalPrefix
  /\ Len(files) = 2
  /\ order = <<1, 2>>

\* C36: consecutiveFailures equals the number of refreshAccessToken calls
\* whose last attempt failed since the last successful refresh or
\* exitDegradedMode, however the concurrent calls interleave.
C36_FailuresCountedOnce ==
  consecutiveFailures = failsSinceReset

\* Two concurrent calls have both failed, each still awaiting its alert, and
\* both failures are counted.
C36_Witness ==
  /\ consecutiveFailures = 2
  /\ \E c \in Callers, d \in Callers :
       /\ c # d
       /\ call[c].pc = "alert"
       /\ call[d].pc = "alert"

\* C37: sendManualReviewAlert is only invoked with 0 <= found < expected,
\* so expected >= 1, and its success rate round(found / expected * 100)
\* lies in 0..99.
C37_AlertRateBelowHundred ==
  \A k \in 1..Len(alerts) :
    LET found == alerts[k][1]
        expected == alerts[k][2]
    IN
    /\ 0 <= found
    /\ found < expected
    /\ expected >= 1
    /\ UploadSuccessRate(found, expected) \in 0..99

\* C38: the active prefix is the canonical prefix or `F/album{n}/` for a
\* top-level folder F of the bucket that starts with the first and ends with
\* the second '_'-separated component of the raw address; for an address that
\* does not split into exactly two components no legacy search is made and
\* the prefix stays the canonical one.
C38_ActivePrefixForm ==
  /\ \/ folderPrefix = CanonicalPrefix
     \/ /\ Len(Split(address)) = 2
        /\ folderPrefix.album = albumNumber
        /\ \E k \in 1..Len(BucketFolders) :
             /\ folderPrefix.folder = BucketFolders[k]
             /\ StartsWith(BucketFolders[k], Split(address)[1])
             /\ EndsWith(BucketFolders[k], Split(address)[2])
  /\ Len(Split(address)) # 2 =>
       /\ folderPrefix = CanonicalPrefix
       /\ cands = <<>>
       /\ pc \notin {"legacy0", "legacy"}

\* The verdict is COMPLETE on the legacy folder "1_S_A" of the address "1_A".
C38_Witness ==
  /\ Complete
  /\ address = <<"1", "_", "A">>
  /\ folderPrefix.folder = <<"1", "_", "S", "_", "A">>
  /\ totalPhotoCount >= 1

====
